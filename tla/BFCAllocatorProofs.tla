--------------------------- MODULE BFCAllocatorProofs --------------------------
(***************************************************************************)
(* Theorems about BFCAllocator, for any device, any clients and requests.  *)
(*                                                                         *)
(* The invariant is about the record `m' of the allocator's members, so    *)
(* that each operator on it has a lemma of its own.  `hand' is the chunk   *)
(* an operation has taken out of its bin, NoHandle between operations.     *)
(***************************************************************************)
EXTENDS BFCAllocator, FiniteSetTheorems, SequenceTheorems, WellFoundedInduction, TLAPS

--------------------------------------------------------------------------------
(* Numbers *)

(* A set of naturals that is not empty has a least element. *)
LEMMA LeastNumber ==
  ASSUME NEW T \in SUBSET Nat, T # {}
  PROVE  \E m \in T : \A k \in T : m <= k
  <1>1. IsWellFoundedOn(OpToRel(<, Nat), Nat)
    BY NatLessThanWellFounded
  <1>2. PICK m \in T : \A k \in T : ~(<<k, m>> \in OpToRel(<, Nat))
    BY <1>1, WFMin
  <1>3. \A k \in T : ~(k < m)
    BY <1>2 DEF OpToRel
  <1> QED
    BY <1>3

(* One that has a bound has a greatest. *)
LEMMA GreatestNumber ==
  ASSUME NEW T \in SUBSET Nat, T # {}, NEW n \in Nat, \A k \in T : k <= n
  PROVE  \E m \in T : \A k \in T : m >= k
  <1> DEFINE U == {n - k : k \in T}
  <1>1. \A k \in T : n - k \in Nat
    OBVIOUS
  <1>2. U \in SUBSET Nat /\ U # {}
    BY <1>1
  <1>3. PICK u \in U : \A k \in U : u <= k
    BY <1>2, LeastNumber
  <1>4. PICK m \in T : u = n - m
    BY <1>3
  <1>5. \A k \in T : n - m <= n - k
    BY <1>3, <1>4
  <1> QED
    BY <1>5

(* Min and Max of a set that has one. *)
LEMMA MinFacts ==
  ASSUME NEW T \in SUBSET Nat, T # {}
  PROVE  Min(T) \in T /\ \A k \in T : Min(T) <= k
  BY LeastNumber DEF Min

(* The greatest of a bounded set. *)
LEMMA MaxFacts ==
  ASSUME NEW T \in SUBSET Nat, T # {}, NEW n \in Nat, \A k \in T : k <= n
  PROVE  Max(T) \in T /\ \A k \in T : Max(T) >= k
  BY GreatestNumber DEF Max

(* The lesser and the greater of two numbers. *)
LEMMA Pairs ==
  ASSUME NEW x \in Nat, NEW y \in Nat
  PROVE  /\ Min({x, y}) = IF x <= y THEN x ELSE y
         /\ Max({x, y}) = IF x >= y THEN x ELSE y
  BY DEF Min, Max

(* What is rounded up is a multiple, and no less. *)
LEMMA Rounding ==
  ASSUME NEW n \in Nat
  PROVE  /\ RoundedBytes(n) \in Nat /\ RoundedBytes(n) >= n
         /\ \E q \in Nat : RoundedBytes(n) = kMinAllocationSize * q
  <1> DEFINE q == (n + kMinAllocationSize - 1) \div kMinAllocationSize
  <1>1. q \in Nat /\ kMinAllocationSize * q \in Nat /\ kMinAllocationSize * q >= n
    BY BFCAssumption
  <1> QED
    BY <1>1 DEF RoundedBytes

(* Every size has a bin, and a larger size no lower one. *)
LEMMA BinFacts ==
  ASSUME NEW n \in Nat
  PROVE  /\ BinNumForSize(n) \in 0 .. kNumBins - 1
         /\ \A k \in Nat : n <= k => BinNumForSize(n) <= BinNumForSize(k)
  <1> DEFINE v(k) == Max({k, kMinAllocationSize}) \div kMinAllocationSize
             B(k) == {b \in 0 .. kNumBins - 1 : 2^b <= v(k)}
  <1>1. ASSUME NEW k \in Nat
        PROVE  v(k) \in Nat /\ v(k) >= 1 /\ \A j \in Nat : j <= k => v(j) <= v(k)
    <2>1. PICK d \in Nat \ {0} : d = kMinAllocationSize
      BY BFCAssumption
    <2>2. \A j \in Nat : Max({j, d}) = IF j >= d THEN j ELSE d
      BY <2>1, Pairs
    <2>3. ASSUME NEW x \in Nat, x >= d
          PROVE  x \div d \in Nat /\ x \div d >= 1
      BY <2>3
    <2>4. ASSUME NEW x \in Nat, NEW y \in Nat, x <= y
          PROVE  x \div d <= y \div d
      BY <2>4
    <2> QED
      BY <2>1, <2>2, <2>3, <2>4
  <1>2. ASSUME NEW k \in Nat
        PROVE  /\ B(k) \in SUBSET Nat /\ B(k) # {} /\ kNumBins \in Nat
               /\ \A b \in B(k) : b <= kNumBins
    <2>1. 0 \in B(k)
      BY <1>1, BFCAssumption
    <2>2. kNumBins \in Nat /\ \A b \in 0 .. kNumBins - 1 : b \in Nat /\ b <= kNumBins
      BY BFCAssumption
    <2> HIDE DEF v
    <2> QED
      BY <2>1, <2>2
  <1>3. ASSUME NEW k \in Nat
        PROVE  BinNumForSize(k) = Max(B(k)) /\ Max(B(k)) \in B(k) /\ \A b \in B(k) : Max(B(k)) >= b
    BY <1>2, MaxFacts DEF BinNumForSize
  <1>4. ASSUME NEW k \in Nat, n <= k
        PROVE  B(n) \subseteq B(k)
    <2>1. v(n) \in Nat /\ v(k) \in Nat /\ v(n) <= v(k)
      BY <1>1, <1>4
    <2> HIDE DEF v
    <2> QED
      BY <2>1, BFCAssumption
  <1> HIDE DEF B
  <1>5. B(n) \subseteq 0 .. kNumBins - 1
    BY DEF B
  <1>6. ASSUME NEW k \in Nat
        PROVE  BinNumForSize(k) \in Int
    <2> HIDE DEF v
    <2>1. Max(B(k)) \in 0 .. kNumBins - 1
      BY <1>3 DEF B
    <2> QED
      BY <1>3, <2>1, BFCAssumption
  <1> QED
    BY <1>3, <1>4, <1>5, <1>6

--------------------------------------------------------------------------------
(* Loops *)

(* Induction up to n, over the set of the numbers for which something holds. *)
LEMMA UpTo ==
  ASSUME NEW n \in Nat, NEW S, 0 \in S, \A k \in 1 .. n : k - 1 \in S => k \in S
  PROVE  n \in S
  <1> DEFINE T == {k \in 0 .. n : k \notin S}
  <1> SUFFICES ASSUME T # {} PROVE FALSE
    OBVIOUS
  <1>1. PICK m \in T : \A k \in T : m <= k
    <2>1. T \in SUBSET Nat
      OBVIOUS
    <2> QED
      BY <2>1, LeastNumber
  <1>2. m # 0 /\ m \in 1 .. n /\ m - 1 \in 0 .. n
    BY <1>1
  <1>3. m - 1 \notin T
    BY <1>1, <1>2
  <1> QED
    BY <1>1, <1>2, <1>3

(* A loop with n rounds whose state stays in T has a function of its states. *)
RunOf(f, b, n, step) == f[0] = b /\ \A i \in 1 .. n : f[i] = step[<<f[i - 1], i>>]

(* That function exists. *)
LEMMA Iteration ==
  ASSUME NEW T, NEW b \in T, NEW n \in Nat, NEW step \in [T \X (1 .. n) -> T]
  PROVE  \E f \in [0 .. n -> T] : RunOf(f, b, n, step)
  <1> DEFINE Run(f, k) == f[0] = b /\ \A i \in 1 .. k : f[i] = step[<<f[i - 1], i>>]
             S == {k \in 0 .. n : \E f \in [0 .. n -> T] : Run(f, k)}
  <1>1. 0 \in S
    <2>1. PICK f : f = [i \in 0 .. n |-> b]
      OBVIOUS
    <2>2. f \in [0 .. n -> T] /\ f[0] = b /\ 0 \in 0 .. n /\ 1 .. 0 = {}
      BY <2>1
    <2>3. Run(f, 0)
      BY <2>2
    <2> HIDE DEF Run
    <2> QED
      BY <2>2, <2>3
  <1>2. ASSUME NEW k \in 1 .. n, k - 1 \in S
        PROVE  k \in S
    <2>1. PICK f \in [0 .. n -> T] : Run(f, k - 1)
      BY <1>2
    <2>2. PICK g : g = [f EXCEPT ![k] = step[<<f[k - 1], k>>]]
      OBVIOUS
    <2>3. k - 1 \in 0 .. n /\ k \in 0 .. n /\ <<f[k - 1], k>> \in T \X (1 .. n)
      OBVIOUS
    <2>4. g \in [0 .. n -> T] /\ g[k] = step[<<f[k - 1], k>>] /\ \A i \in 0 .. n : i # k => g[i] = f[i]
      BY <2>2, <2>3
    <2>5. g[0] = b
      BY <2>1, <2>4
    <2>6. ASSUME NEW i \in 1 .. k
          PROVE  g[i] = step[<<g[i - 1], i>>]
      <3>1. i - 1 \in 0 .. n /\ i - 1 # k /\ i \in 0 .. n
        OBVIOUS
      <3>2. g[i - 1] = f[i - 1]
        BY <2>4, <3>1
      <3>3. i # k => i \in 1 .. k - 1
        OBVIOUS
      <3> QED
        BY <2>1, <2>4, <3>1, <3>2, <3>3
    <2> QED
      BY <2>4, <2>5, <2>6
  <1>3. n \in S
    <2> HIDE DEF S
    <2> QED
      BY <1>1, <1>2, UpTo
  <1> QED
    BY <1>3 DEF RunOf

--------------------------------------------------------------------------------
(* The inductive invariant *)

ChunkType == [ptr : Addresses, size : Nat, used : BOOLEAN, prev : Nat, next : Nat,
              bin : Int, freed : Nat]

MemType ==
  [chunks : Seq(ChunkType), gc : BOOLEAN, timed : BOOLEAN, spare : Seq(Nat),
   handle : [Addresses -> Nat], regions : SUBSET [ptr : Addresses, size : Nat],
   curr : Nat, total : Nat, backpedal : BOOLEAN, hung : BOOLEAN,
   timestamped : Seq(Nat), frontier : Nat, in_use : Int]

(* Chunks, their limits and the bytes between them; regions alike. *)
Handles(m) == 1 .. Len(m.chunks)
Is(m, h) == h \in Handles(m) /\ m.handle[m.chunks[h].ptr] = h
Fin(m, h) == m.chunks[h].ptr + m.chunks[h].size
Covers(m, h, a) == m.chunks[h].ptr <= a /\ a < Fin(m, h)
RegionEnd(r) == r.ptr + r.size
Holds(r, a) == r.ptr <= a /\ a < RegionEnd(r)
UsedBytes(m) == {a \in Addresses : \E h \in Handles(m) : Is(m, h) /\ m.chunks[h].used /\ Covers(m, h, a)}

(* A handle is filed under the address of its chunk; the others are spare. *)
Filed(m) ==
  /\ \A a \in Addresses : m.handle[a] # NoHandle =>
       m.handle[a] \in Handles(m) /\ m.chunks[m.handle[a]].ptr = a
  /\ \A i \in 1 .. Len(m.spare) : m.spare[i] \in Handles(m) /\ ~Is(m, m.spare[i])
  /\ \A i, j \in 1 .. Len(m.spare) : m.spare[i] = m.spare[j] => i = j
  /\ \A i \in 1 .. Len(m.timestamped) : m.timestamped[i] \in Handles(m)

(* A chunk in use is in no bin, a free one in the bin of its size. *)
Binned(m, hand) ==
  \A h \in Handles(m) :
    /\ m.chunks[h].used => Is(m, h) /\ m.chunks[h].bin = NoBin
    /\ m.chunks[h].bin # NoBin => Is(m, h)
    /\ Is(m, h) /\ ~m.chunks[h].used /\ h # hand => m.chunks[h].bin = BinNumForSize(m.chunks[h].size)
    /\ h = hand => m.chunks[h].bin = NoBin

Apart(m) == \A r, s \in m.regions : r # s => RegionEnd(r) <= s.ptr \/ RegionEnd(s) <= r.ptr

Regions(m) ==
  /\ \A r \in m.regions : r.size > 0 /\ RegionEnd(r) <= DeviceSize /\ m.handle[r.ptr] # NoHandle
  /\ Apart(m)

(* The neighbours of a chunk of region r. *)
NextLink(m, h, r) ==
  LET n == m.chunks[h].next IN
  \/ Fin(m, h) = RegionEnd(r) /\ n = NoHandle
  \/ Fin(m, h) < RegionEnd(r) /\ Is(m, n) /\ m.chunks[n].ptr = Fin(m, h) /\ m.chunks[n].prev = h
PrevLink(m, h, r) ==
  LET p == m.chunks[h].prev IN
  \/ m.chunks[h].ptr = r.ptr /\ p = NoHandle
  \/ m.chunks[h].ptr > r.ptr /\ Is(m, p) /\ Fin(m, p) = m.chunks[h].ptr /\ m.chunks[p].next = h

Linked(m) ==
  \A h \in Handles(m) : Is(m, h) =>
    /\ m.chunks[h].size > 0
    /\ \E r \in m.regions : Holds(r, m.chunks[h].ptr)
    /\ \A r \in m.regions : Holds(r, m.chunks[h].ptr) => NextLink(m, h, r) /\ PrevLink(m, h, r)

(* No byte is in two chunks, and every byte of a region is in one. *)
Tiled(m) ==
  /\ \A g, h \in Handles(m) : Is(m, g) /\ Is(m, h) /\ g # h =>
       Fin(m, g) <= m.chunks[h].ptr \/ Fin(m, h) <= m.chunks[g].ptr
  /\ \A r \in m.regions, a \in Addresses : Holds(r, a) =>
       \E h \in Handles(m) : Is(m, h) /\ Covers(m, h, a)

Counted(m) ==
  /\ m.in_use = Cardinality(UsedBytes(m))
  /\ m.total = Cardinality(Bytes(m.regions)) /\ m.total <= MemoryLimit

Good(m, hand) ==
  /\ m \in MemType /\ Filed(m) /\ Binned(m, hand)
  /\ Regions(m) /\ Linked(m) /\ Tiled(m) /\ Counted(m)

(* F is freed_at: what a free chunk says covers all of its bytes. *)
Stamped(m, F) ==
  \A h \in Handles(m) : Is(m, h) /\ ~m.chunks[h].used =>
    \A a \in Addresses : Covers(m, h, a) => F[a] <= m.chunks[h].freed \/ F[a] < m.frontier
Fresh(m, F) ==
  /\ ~m.timed => \A a \in Addresses : F[a] = 0
  /\ \A a \in Addresses : (\A r \in m.regions : ~Holds(r, a)) => F[a] = 0

(* Where nothing waits for its time free neighbours are merged, but for the  *)
(* chunk in hand: a free chunk is the last of its region or is followed by   *)
(* one in use.                                                               *)
Settled(m, g) == m.chunks[g].next = NoHandle \/ m.chunks[m.chunks[g].next].used
Merged(m, hand) ==
  \A g : Is(m, g) =>
    /\ m.chunks[g].freed = 0
    /\ ~m.chunks[g].used /\ g # hand => Settled(m, g) \/ m.chunks[g].next = hand

--------------------------------------------------------------------------------
(* What the operators on chunks do, field by field *)

SameRest(m, w) ==
  /\ w.gc = m.gc /\ w.timed = m.timed /\ w.regions = m.regions /\ w.curr = m.curr
  /\ w.total = m.total /\ w.backpedal = m.backpedal /\ w.hung = m.hung
  /\ w.frontier = m.frontier /\ w.in_use = m.in_use

(* The chunks are where they were. *)
SameChunk(m, w, g) ==
  /\ w.chunks[g].ptr = m.chunks[g].ptr /\ w.chunks[g].size = m.chunks[g].size
  /\ w.chunks[g].prev = m.chunks[g].prev /\ w.chunks[g].next = m.chunks[g].next
  /\ w.chunks[g].used = m.chunks[g].used
SamePlaces(m, w) ==
  /\ Handles(w) = Handles(m) /\ w.handle = m.handle /\ w.spare = m.spare
  /\ w.regions = m.regions /\ \A g \in Handles(m) : SameChunk(m, w, g)

(* Members are what their types say. *)
LEMMA Members ==
  ASSUME NEW m \in MemType
  PROVE  /\ Len(m.chunks) \in Nat /\ Len(m.spare) \in Nat /\ Len(m.timestamped) \in Nat
         /\ m.chunks \in Seq(ChunkType) /\ m.chunks \in [1 .. Len(m.chunks) -> ChunkType]
         /\ m.spare \in Seq(Nat) /\ m.timestamped \in Seq(Nat)
         /\ \A h \in Handles(m) : /\ h \in Nat /\ h # NoHandle /\ h \in Int
              /\ m.chunks[h] \in ChunkType
              /\ m.chunks[h].ptr \in Addresses /\ m.chunks[h].ptr \in Int /\ m.chunks[h].size \in Nat
              /\ m.chunks[h].prev \in Nat /\ m.chunks[h].next \in Nat
              /\ m.chunks[h].used \in BOOLEAN /\ m.chunks[h].bin \in Int /\ m.chunks[h].freed \in Nat
         /\ m.handle \in [Addresses -> Nat]
         /\ \A r \in m.regions : r.ptr \in Addresses /\ r.ptr \in Nat /\ r.size \in Nat
         /\ m.total \in Nat /\ m.curr \in Nat /\ m.frontier \in Nat /\ m.in_use \in Int
         /\ m.regions \in SUBSET [ptr : Addresses, size : Nat]
  <1>1. m.chunks \in Seq(ChunkType) /\ m.spare \in Seq(Nat) /\ m.timestamped \in Seq(Nat)
    BY DEF MemType
  <1>2. Len(m.chunks) \in Nat /\ m.chunks \in [1 .. Len(m.chunks) -> ChunkType]
    BY <1>1, LenProperties
  <1>3. Len(m.spare) \in Nat /\ Len(m.timestamped) \in Nat
    BY <1>1, LenProperties
  <1>4. \A h \in Handles(m) : h \in Nat /\ h # NoHandle /\ h \in Int /\ m.chunks[h] \in ChunkType
    BY <1>2 DEF Handles, NoHandle
  <1>5. \A a \in Addresses : a \in Nat
    BY BFCAssumption DEF Addresses
  <1>6. \A c \in ChunkType : /\ c.ptr \in Addresses /\ c.ptr \in Int /\ c.size \in Nat
              /\ c.prev \in Nat /\ c.next \in Nat /\ c.used \in BOOLEAN /\ c.bin \in Int /\ c.freed \in Nat
    BY <1>5 DEF ChunkType
  <1> QED
    BY <1>1, <1>2, <1>3, <1>4, <1>5, <1>6 DEF MemType

(* One chunk is replaced. *)
Put(m, h, c) == [m EXCEPT !.chunks = [m.chunks EXCEPT ![h] = c]]

PutTo(m, w, h, c) ==
  /\ w \in MemType /\ Handles(w) = Handles(m) /\ SameRest(m, w)
  /\ w.handle = m.handle /\ w.spare = m.spare /\ w.timestamped = m.timestamped
  /\ w.chunks[h] = c /\ \A g \in Handles(m) : g # h => w.chunks[g] = m.chunks[g]

(* Replacing one chunk replaces nothing else. *)
LEMMA PutChunk ==
  ASSUME NEW m \in MemType, NEW h \in Handles(m), NEW c \in ChunkType,
         NEW w, w = Put(m, h, c)
  PROVE  PutTo(m, w, h, c)
  <1>1. PICK s : s = [m.chunks EXCEPT ![h] = c]
    OBVIOUS
  <1>2. m.chunks \in Seq(ChunkType) /\ h \in 1 .. Len(m.chunks)
    BY Members DEF Handles
  <1>3. /\ s \in Seq(ChunkType) /\ Len(s) = Len(m.chunks)
        /\ \A j \in 1 .. Len(m.chunks) : s[j] = IF j = h THEN c ELSE m.chunks[j]
    BY <1>1, <1>2, ExceptSeq
  <1>4. w = [m EXCEPT !.chunks = s]
    BY <1>1 DEF Put
  <1>5. w \in MemType /\ w.chunks = s
    BY <1>3, <1>4 DEF MemType
  <1>6. /\ SameRest(m, w) /\ w.handle = m.handle /\ w.spare = m.spare
        /\ w.timestamped = m.timestamped
    BY <1>4 DEF MemType, SameRest
  <1> QED
    BY <1>2, <1>3, <1>5, <1>6 DEF Handles, PutTo

(* A chunk's bin, or the time it was freed, is set. *)
BinSet(m, w, h, b) ==
  /\ w \in MemType /\ SamePlaces(m, w) /\ SameRest(m, w) /\ w.timestamped = m.timestamped
  /\ \A g \in Handles(m) : /\ w.chunks[g].freed = m.chunks[g].freed
                           /\ w.chunks[g].bin = IF g = h THEN b ELSE m.chunks[g].bin
FreedSet(m, w, h, n) ==
  /\ w \in MemType /\ SamePlaces(m, w) /\ SameRest(m, w) /\ w.timestamped = m.timestamped
  /\ \A g \in Handles(m) : /\ w.chunks[g].bin = m.chunks[g].bin
                           /\ w.chunks[g].freed = IF g = h THEN n ELSE m.chunks[g].freed

(* Setting a bin changes nothing else. *)
LEMMA PutBin ==
  ASSUME NEW m \in MemType, NEW h \in Handles(m), NEW b \in Int,
         NEW w, w = [m EXCEPT !.chunks[h].bin = b]
  PROVE  BinSet(m, w, h, b)
  <1>1. PICK c : c = [m.chunks[h] EXCEPT !.bin = b]
    OBVIOUS
  <1>2. m.chunks[h] \in ChunkType
    BY Members
  <1>3. /\ c \in ChunkType /\ c.bin = b
        /\ c.ptr = m.chunks[h].ptr /\ c.size = m.chunks[h].size /\ c.prev = m.chunks[h].prev
        /\ c.next = m.chunks[h].next /\ c.used = m.chunks[h].used /\ c.freed = m.chunks[h].freed
    BY <1>1, <1>2 DEF ChunkType
  <1>4. w = Put(m, h, c)
    BY <1>1 DEF Put
  <1>5. /\ w \in MemType /\ Handles(w) = Handles(m) /\ SameRest(m, w)
        /\ w.handle = m.handle /\ w.spare = m.spare /\ w.timestamped = m.timestamped
        /\ w.chunks[h] = c /\ \A g \in Handles(m) : g # h => w.chunks[g] = m.chunks[g]
    BY ONLY <1>3, <1>4, m \in MemType, h \in Handles(m), PutChunk DEF PutTo
  <1>6. ASSUME NEW g \in Handles(m)
        PROVE  SameChunk(m, w, g)
    <2>1. CASE g = h
      BY <1>3, <1>5, <2>1, Zenon DEF SameChunk
    <2>2. CASE g # h
      BY <1>5, <2>2, Zenon DEF SameChunk
    <2> QED
      BY <2>1, <2>2
  <1>7. SamePlaces(m, w)
    BY <1>5, <1>6 DEF SamePlaces, SameRest
  <1> QED
    BY <1>3, <1>5, <1>7 DEF BinSet

(* Neither does setting a time. *)
LEMMA PutFreed ==
  ASSUME NEW m \in MemType, NEW h \in Handles(m), NEW n \in Nat,
         NEW w, w = [m EXCEPT !.chunks[h].freed = n]
  PROVE  FreedSet(m, w, h, n)
  <1>1. PICK c : c = [m.chunks[h] EXCEPT !.freed = n]
    OBVIOUS
  <1>2. m.chunks[h] \in ChunkType
    BY Members
  <1>3. /\ c \in ChunkType /\ c.freed = n
        /\ c.ptr = m.chunks[h].ptr /\ c.size = m.chunks[h].size /\ c.prev = m.chunks[h].prev
        /\ c.next = m.chunks[h].next /\ c.used = m.chunks[h].used /\ c.bin = m.chunks[h].bin
    BY <1>1, <1>2 DEF ChunkType
  <1>4. w = Put(m, h, c)
    BY <1>1 DEF Put
  <1>5. /\ w \in MemType /\ Handles(w) = Handles(m) /\ SameRest(m, w)
        /\ w.handle = m.handle /\ w.spare = m.spare /\ w.timestamped = m.timestamped
        /\ w.chunks[h] = c /\ \A g \in Handles(m) : g # h => w.chunks[g] = m.chunks[g]
    BY ONLY <1>3, <1>4, m \in MemType, h \in Handles(m), PutChunk DEF PutTo
  <1>6. ASSUME NEW g \in Handles(m)
        PROVE  SameChunk(m, w, g)
    <2>1. CASE g = h
      BY <1>3, <1>5, <2>1, Zenon DEF SameChunk
    <2>2. CASE g # h
      BY <1>5, <2>2, Zenon DEF SameChunk
    <2> QED
      BY <2>1, <2>2
  <1>7. SamePlaces(m, w)
    BY <1>5, <1>6 DEF SamePlaces, SameRest
  <1> QED
    BY <1>3, <1>5, <1>7 DEF FreedSet

(* What is true of chunks that are where they were. *)
LEMMA PlacesKept ==
  ASSUME NEW m \in MemType, NEW w \in MemType, SamePlaces(m, w)
  PROVE  /\ \A h : Is(w, h) <=> Is(m, h)
         /\ UsedBytes(w) = UsedBytes(m)
         /\ Regions(m) => Regions(w)
         /\ Linked(m) => Linked(w)
         /\ Tiled(m) => Tiled(w)
  <1>1. \A h : Is(w, h) <=> Is(m, h)
    BY DEF Is, SamePlaces, SameChunk
  <1>2. \A h \in Handles(m) : Fin(w, h) = Fin(m, h) /\ \A a : Covers(w, h, a) <=> Covers(m, h, a)
    BY DEF SamePlaces, SameChunk, Fin, Covers
  <1>3. UsedBytes(w) = UsedBytes(m)
    BY <1>1, <1>2 DEF UsedBytes, SamePlaces, SameChunk
  <1>4. Regions(m) => Regions(w)
    BY DEF Regions, Apart, SamePlaces
  <1>5. Tiled(m) => Tiled(w)
    BY <1>1, <1>2 DEF Tiled, SamePlaces, SameChunk
  <1>6. \A h \in Handles(m), r \in m.regions :
           /\ NextLink(m, h, r) => NextLink(w, h, r)
           /\ PrevLink(m, h, r) => PrevLink(w, h, r)
    <2>1. \A h : Is(m, h) => h \in Handles(m)
      BY DEF Is
    <2> QED
      BY <1>1, <1>2, <2>1 DEF NextLink, PrevLink, SamePlaces, SameChunk
  <1>7. Linked(m) => Linked(w)
    BY <1>1, <1>6 DEF Linked, SamePlaces, SameChunk
  <1> QED
    BY <1>1, <1>3, <1>4, <1>5, <1>7

(* DeleteChunk: the handle is no longer filed, and is spare. *)
DeletedTo(m, w, h) ==
  /\ w \in MemType /\ Handles(w) = Handles(m) /\ SameRest(m, w)
  /\ w.timestamped = m.timestamped
  /\ \A a \in Addresses : w.handle[a] = IF a = m.chunks[h].ptr THEN NoHandle ELSE m.handle[a]
  /\ Len(w.spare) = Len(m.spare) + 1 /\ w.spare[1] = h
  /\ \A i \in 1 .. Len(m.spare) : w.spare[i + 1] = m.spare[i]
  /\ ~w.chunks[h].used /\ w.chunks[h].bin = NoBin
  /\ w.chunks[h].ptr = m.chunks[h].ptr /\ w.chunks[h].size = m.chunks[h].size
  /\ w.chunks[h].prev = m.chunks[h].prev /\ w.chunks[h].next = m.chunks[h].next
  /\ w.chunks[h].freed = m.chunks[h].freed
  /\ \A g \in Handles(m) : g # h => w.chunks[g] = m.chunks[g]

(* DeleteChunk has that effect. *)
LEMMA DeleteFacts ==
  ASSUME NEW m \in MemType, NEW h \in Handles(m), NEW w, w = DeleteChunk(m, h)
  PROVE  DeletedTo(m, w, h)
  <1>1. PICK c : c = [m.chunks[h] EXCEPT !.used = FALSE, !.bin = NoBin]
    OBVIOUS
  <1>2. m.chunks[h] \in ChunkType /\ m.chunks[h].ptr \in Addresses /\ NoBin \in Int
    BY Members DEF NoBin
  <1>3. /\ c \in ChunkType /\ c.used = FALSE /\ c.bin = NoBin
        /\ c.ptr = m.chunks[h].ptr /\ c.size = m.chunks[h].size /\ c.prev = m.chunks[h].prev
        /\ c.next = m.chunks[h].next /\ c.freed = m.chunks[h].freed
    BY <1>1, <1>2 DEF ChunkType
  <1>4. PICK v : v = Put(m, h, c)
    OBVIOUS
  <1>5. /\ v \in MemType /\ Handles(v) = Handles(m) /\ SameRest(m, v)
        /\ v.handle = m.handle /\ v.spare = m.spare /\ v.timestamped = m.timestamped
        /\ v.chunks[h] = c /\ \A g \in Handles(m) : g # h => v.chunks[g] = m.chunks[g]
    BY <1>3, <1>4, PutChunk DEF PutTo
  <1>6. PICK q : q = [m.handle EXCEPT ![m.chunks[h].ptr] = NoHandle]
    OBVIOUS
  <1>7. q \in [Addresses -> Nat] /\ \A a \in Addresses : q[a] = IF a = m.chunks[h].ptr THEN NoHandle ELSE m.handle[a]
    BY <1>2, <1>6, Members DEF NoHandle
  <1>8. PICK s : s = <<h>> \o m.spare
    OBVIOUS
  <1>9. /\ s \in Seq(Nat) /\ Len(s) = Len(m.spare) + 1 /\ s[1] = h
        /\ \A i \in 1 .. Len(m.spare) : s[i + 1] = m.spare[i]
    <2>1. <<h>> \in Seq(Nat) /\ m.spare \in Seq(Nat) /\ Len(<<h>>) = 1 /\ <<h>>[1] = h /\ Len(m.spare) \in Nat
      BY Members
    <2>2. /\ s \in Seq(Nat) /\ Len(s) = 1 + Len(m.spare)
          /\ \A i \in 1 .. 1 + Len(m.spare) : s[i] = IF i <= 1 THEN <<h>>[i] ELSE m.spare[i - 1]
      BY <1>8, <2>1, ConcatProperties
    <2> QED
      <3>1. s[1] = h
        BY <2>1, <2>2
      <3>2. ASSUME NEW i \in 1 .. Len(m.spare)
            PROVE  s[i + 1] = m.spare[i]
        <4>1. i + 1 \in 1 .. 1 + Len(m.spare) /\ ~(i + 1 <= 1) /\ (i + 1) - 1 = i
          BY <2>1
        <4> QED
          BY <2>2, <4>1
      <3> QED
        BY <2>1, <2>2, <3>1, <3>2
  <1>10. w = [v EXCEPT !.handle = q, !.spare = s]
    BY <1>1, <1>4, <1>6, <1>8 DEF DeleteChunk, MemType, Put
  <1>11. /\ w \in MemType /\ w.chunks = v.chunks /\ w.handle = q /\ w.spare = s
         /\ w.timestamped = v.timestamped /\ SameRest(v, w)
    BY <1>5, <1>7, <1>9, <1>10 DEF MemType, SameRest
  <1> QED
    BY <1>3, <1>5, <1>7, <1>9, <1>11 DEF Handles, SameRest, DeletedTo

(* A chunk, if there is one, gets another predecessor. *)
PrevSet(m, w, n, p) ==
  /\ w \in MemType /\ Handles(w) = Handles(m) /\ SameRest(m, w)
  /\ w.handle = m.handle /\ w.spare = m.spare /\ w.timestamped = m.timestamped
  /\ \A g \in Handles(m) :
       /\ w.chunks[g].ptr = m.chunks[g].ptr /\ w.chunks[g].size = m.chunks[g].size
       /\ w.chunks[g].prev = IF g = n THEN p ELSE m.chunks[g].prev
       /\ w.chunks[g].next = m.chunks[g].next /\ w.chunks[g].used = m.chunks[g].used
       /\ w.chunks[g].bin = m.chunks[g].bin /\ w.chunks[g].freed = m.chunks[g].freed

(* SetPrev has that effect. *)
LEMMA PutPrev ==
  ASSUME NEW m \in MemType, NEW n \in Handles(m) \cup {NoHandle}, NEW p \in Nat,
         NEW w, w = SetPrev(m, n, p)
  PROVE  PrevSet(m, w, n, p)
  <1>1. CASE n = NoHandle
    <2>1. w = m
      BY <1>1 DEF SetPrev
    <2>2. \A g \in Handles(m) : g # n
      BY <1>1, Members
    <2> QED
      BY <2>1, <2>2 DEF SameRest, PrevSet
  <1>2. CASE n # NoHandle
    <2>1. PICK c : c = [m.chunks[n] EXCEPT !.prev = p]
      OBVIOUS
    <2>2. n \in Handles(m) /\ m.chunks[n] \in ChunkType
      BY <1>2, Members
    <2>3. /\ c \in ChunkType /\ c.prev = p
          /\ c.ptr = m.chunks[n].ptr /\ c.size = m.chunks[n].size
          /\ c.next = m.chunks[n].next /\ c.used = m.chunks[n].used
          /\ c.bin = m.chunks[n].bin /\ c.freed = m.chunks[n].freed
      BY <2>1, <2>2 DEF ChunkType
    <2>4. w = Put(m, n, c)
      BY <1>2, <2>1 DEF Put, SetPrev
    <2>5. /\ w \in MemType /\ Handles(w) = Handles(m) /\ SameRest(m, w)
          /\ w.handle = m.handle /\ w.spare = m.spare /\ w.timestamped = m.timestamped
          /\ w.chunks[n] = c /\ \A g \in Handles(m) : g # n => w.chunks[g] = m.chunks[g]
      BY ONLY <2>2, <2>3, <2>4, m \in MemType, PutChunk DEF PutTo
    <2> QED
      BY <2>3, <2>5 DEF PrevSet
  <1> QED
    BY <1>1, <1>2

--------------------------------------------------------------------------------
(* Merging h2 into its predecessor h1 *)

MergedChunk(m, w, h1, h2, g) ==
  /\ w.chunks[g].ptr = m.chunks[g].ptr
  /\ w.chunks[g].size = IF g = h1 THEN m.chunks[h1].size + m.chunks[h2].size ELSE m.chunks[g].size
  /\ w.chunks[g].next = IF g = h1 THEN m.chunks[h2].next ELSE m.chunks[g].next
  /\ w.chunks[g].prev = IF g = m.chunks[h2].next THEN h1 ELSE m.chunks[g].prev
  /\ w.chunks[g].used <=> m.chunks[g].used /\ g # h2
  /\ w.chunks[g].bin = IF g = h2 THEN NoBin ELSE m.chunks[g].bin
  /\ w.chunks[g].freed = IF g = h1 THEN Max({m.chunks[h1].freed, m.chunks[h2].freed})
                                   ELSE m.chunks[g].freed

MergedTo(m, w, h1, h2) ==
  /\ w \in MemType /\ Handles(w) = Handles(m) /\ SameRest(m, w) /\ w.timestamped = m.timestamped
  /\ \A a \in Addresses : w.handle[a] = IF a = m.chunks[h2].ptr THEN NoHandle ELSE m.handle[a]
  /\ Len(w.spare) = Len(m.spare) + 1 /\ w.spare[1] = h2
  /\ \A i \in 1 .. Len(m.spare) : w.spare[i + 1] = m.spare[i]
  /\ \A g \in Handles(m) : MergedChunk(m, w, h1, h2, g)

(* Merge has that effect. *)
LEMMA MergeFacts ==
  ASSUME NEW m \in MemType, NEW h1 \in Handles(m), NEW h2 \in Handles(m), h1 # h2,
         m.chunks[h2].next \in Handles(m) \cup {NoHandle},
         m.chunks[h2].next # h1, m.chunks[h2].next # h2,
         NEW w, w = Merge(m, h1, h2)
  PROVE  MergedTo(m, w, h1, h2)
  <1>1. PICK n : n = m.chunks[h2].next
    OBVIOUS
  <1>2. PICK c : c = [m.chunks[h1] EXCEPT !.next = n, !.size = m.chunks[h1].size + m.chunks[h2].size,
                                          !.freed = Max({m.chunks[h1].freed, m.chunks[h2].freed})]
    OBVIOUS
  <1>3. /\ m.chunks[h1] \in ChunkType /\ n \in Nat /\ m.chunks[h1].size + m.chunks[h2].size \in Nat
        /\ Max({m.chunks[h1].freed, m.chunks[h2].freed}) \in Nat
    <2>1. m.chunks[h1].freed \in Nat /\ m.chunks[h2].freed \in Nat
      BY Members
    <2>2. Max({m.chunks[h1].freed, m.chunks[h2].freed}) \in Nat
      BY <2>1, Pairs
    <2> QED
      BY <1>1, <2>2, Members
  <1>4. /\ c \in ChunkType /\ c.next = n /\ c.size = m.chunks[h1].size + m.chunks[h2].size
        /\ c.freed = Max({m.chunks[h1].freed, m.chunks[h2].freed})
        /\ c.ptr = m.chunks[h1].ptr /\ c.prev = m.chunks[h1].prev
        /\ c.used = m.chunks[h1].used /\ c.bin = m.chunks[h1].bin
    BY <1>2, <1>3 DEF ChunkType
  <1>5. PICK m1 : m1 = Put(m, h1, c)
    OBVIOUS
  <1>6. /\ m1 \in MemType /\ Handles(m1) = Handles(m) /\ SameRest(m, m1)
        /\ m1.handle = m.handle /\ m1.spare = m.spare /\ m1.timestamped = m.timestamped
        /\ m1.chunks[h1] = c /\ \A g \in Handles(m) : g # h1 => m1.chunks[g] = m.chunks[g]
    BY ONLY <1>4, <1>5, m \in MemType, h1 \in Handles(m), PutChunk DEF PutTo
  <1>7. PICK m2 : m2 = SetPrev(m1, n, h1)
    OBVIOUS
  <1>8. PrevSet(m1, m2, n, h1)
    <2>1. n \in Handles(m1) \cup {NoHandle} /\ h1 \in Nat
      BY <1>1, <1>6, Members
    <2>2. m1 \in MemType
      BY <1>6
    <2> QED
      BY ONLY <1>7, <2>1, <2>2, PutPrev
  <1>9. w = DeleteChunk(m2, h2)
    <2>1. [m EXCEPT !.chunks[h1] = [m.chunks[h1] EXCEPT !.next = m.chunks[h2].next,
             !.size = m.chunks[h1].size + m.chunks[h2].size,
             !.freed = Max({m.chunks[h1].freed, m.chunks[h2].freed})]] = m1
      BY <1>1, <1>2, <1>5 DEF Put
    <2>2. Merge(m, h1, h2) =
            DeleteChunk(SetPrev([m EXCEPT !.chunks[h1] =
              [m.chunks[h1] EXCEPT !.next = m.chunks[h2].next,
                !.size = m.chunks[h1].size + m.chunks[h2].size,
                !.freed = Max({m.chunks[h1].freed, m.chunks[h2].freed})]], m.chunks[h2].next, h1), h2)
      BY DEF Merge, FixPrev
    <2> QED
      BY <1>1, <1>7, <2>1, <2>2, Zenon
  <1>10. DeletedTo(m2, w, h2)
    <2>1. h2 \in Handles(m2) /\ m2 \in MemType
      BY <1>6, <1>8 DEF PrevSet
    <2> QED
      BY ONLY <1>9, <2>1, DeleteFacts
  <1>11. m2.chunks[h2].ptr = m.chunks[h2].ptr /\ m2.handle = m.handle /\ m2.spare = m.spare
    BY <1>6, <1>8 DEF PrevSet
  <1>12. w \in MemType /\ SameRest(m, w) /\ Handles(w) = Handles(m) /\ w.timestamped = m.timestamped
    BY <1>6, <1>8, <1>10 DEF SameRest, PrevSet, DeletedTo
  <1>13. ASSUME NEW g \in Handles(m)
         PROVE  MergedChunk(m, w, h1, h2, g)
    <2>1. CASE g = h1
      BY SMTT(30), <1>1, <1>4, <1>6, <1>8, <1>10, <2>1 DEF PrevSet, DeletedTo, MergedChunk
    <2>2. CASE g = h2
      BY <1>1, <1>6, <1>8, <1>10, <2>2 DEF PrevSet, DeletedTo, MergedChunk
    <2>3. CASE g # h1 /\ g # h2
      BY SMTT(30), <1>1, <1>6, <1>8, <1>10, <2>3 DEF PrevSet, DeletedTo, MergedChunk
    <2> QED
      BY <2>1, <2>2, <2>3
  <1> QED
    BY <1>10, <1>11, <1>12, <1>13 DEF MergedTo, DeletedTo

(* A chunk and its successor. *)
LEMMA Neighbours ==
  ASSUME NEW m \in MemType, Regions(m), Linked(m), NEW h, Is(m, h), NEW n, n = m.chunks[h].next, n # NoHandle
  PROVE  /\ Is(m, n) /\ n # h /\ m.chunks[n].ptr = Fin(m, h) /\ m.chunks[n].prev = h
         /\ \A r \in m.regions : Holds(r, m.chunks[n].ptr) <=> Holds(r, m.chunks[h].ptr)
  <1>1. h \in Handles(m) /\ m.chunks[h].size > 0
    BY DEF Linked, Is
  <1>2. PICK r \in m.regions : Holds(r, m.chunks[h].ptr)
    BY <1>1 DEF Linked
  <1>3. NextLink(m, h, r)
    BY <1>1, <1>2 DEF Linked
  <1>4. Is(m, n) /\ m.chunks[n].ptr = Fin(m, h) /\ m.chunks[n].prev = h /\ Fin(m, h) < RegionEnd(r)
    BY <1>3 DEF NextLink
  <1>5. m.chunks[h].ptr \in Int /\ m.chunks[h].size \in Nat
    BY <1>1, Members
  <1>6. n # h
    BY <1>1, <1>4, <1>5 DEF Fin
  <1>7. r.ptr \in Nat /\ r.size \in Nat
    BY <1>2, Members
  <1>8. Holds(r, m.chunks[n].ptr)
    BY <1>1, <1>2, <1>4, <1>5, <1>7 DEF Holds, Fin, RegionEnd
  <1>9. \A s \in m.regions : Holds(s, m.chunks[n].ptr) => s = r
    <2>1. m.chunks[n].ptr \in Int
      BY <1>4, <1>5 DEF Fin
    <2>2. \A s \in m.regions : s.ptr \in Nat /\ s.size \in Nat
      BY Members
    <2> QED
      BY <1>2, <1>7, <1>8, <2>1, <2>2 DEF Holds, Regions, Apart, RegionEnd
  <1>10. \A s \in m.regions : Holds(s, m.chunks[h].ptr) => s = r
    <2>2. \A s \in m.regions : s.ptr \in Nat /\ s.size \in Nat
      BY Members
    <2> QED
      BY <1>2, <1>5, <1>7, <2>2 DEF Holds, Regions, Apart, RegionEnd
  <1> QED
    BY <1>2, <1>4, <1>6, <1>8, <1>9, <1>10

(* What merging two free neighbours leaves true. *)
LEMMA MergeKeeps ==
  ASSUME NEW m \in MemType, Filed(m), Regions(m), Linked(m), Tiled(m),
         NEW h1, NEW h2, Is(m, h1), m.chunks[h1].next = h2, h2 # NoHandle,
         ~m.chunks[h1].used, ~m.chunks[h2].used,
         NEW w, MergedTo(m, w, h1, h2)
  PROVE  /\ \A g : Is(w, g) <=> Is(m, g) /\ g # h2
         /\ Filed(w) /\ Regions(w) /\ Linked(w) /\ Tiled(w)
         /\ UsedBytes(w) = UsedBytes(m)
  <1>1. /\ Is(m, h2) /\ h2 # h1 /\ m.chunks[h2].ptr = Fin(m, h1) /\ m.chunks[h2].prev = h1
        /\ \A r \in m.regions : Holds(r, m.chunks[h2].ptr) <=> Holds(r, m.chunks[h1].ptr)
    BY Neighbours
  <1>2. h1 \in Handles(m) /\ h2 \in Handles(m) /\ Handles(w) = Handles(m) /\ w.regions = m.regions
    BY <1>1 DEF Is, MergedTo, SameRest
  <1>3. /\ \A g \in Handles(m) : m.chunks[g].ptr \in Int /\ m.chunks[g].size \in Nat /\ m.chunks[g].ptr \in Addresses
        /\ \A g \in Handles(m) : g # NoHandle
    BY Members
  <1>4. ASSUME NEW g PROVE Is(w, g) <=> Is(m, g) /\ g # h2
    <2>1. g \in Handles(m) => w.chunks[g].ptr = m.chunks[g].ptr
      BY DEF MergedTo, MergedChunk
    <2> QED
      BY <1>1, <1>2, <1>3, <2>1 DEF Is, MergedTo
  <1>5. ASSUME NEW g \in Handles(m)
        PROVE  Fin(w, g) = IF g = h1 THEN Fin(m, h2) ELSE Fin(m, g)
    <2>1. MergedChunk(m, w, h1, h2, g)
      BY DEF MergedTo
    <2> QED
      BY <1>1, <1>2, <1>3, <2>1 DEF Fin, MergedChunk
  <1>6. ASSUME NEW g \in Handles(m), NEW a \in Int
        PROVE  Covers(w, g, a) <=> Covers(m, g, a) \/ (g = h1 /\ Covers(m, h2, a))
    <2>1. w.chunks[g].ptr = m.chunks[g].ptr
      BY DEF MergedTo, MergedChunk
    <2>2. m.chunks[h1].size > 0 /\ m.chunks[h2].size > 0
      BY <1>1, <1>2 DEF Linked
    <2>3. CASE g = h1
      BY <1>1, <1>2, <1>3, <1>5, <2>1, <2>2, <2>3 DEF Covers, Fin
    <2>4. CASE g # h1
      BY <1>5, <2>1, <2>4 DEF Covers
    <2> QED
      BY <2>3, <2>4
  <1>7. Filed(w)
    <2>1. \A a \in Addresses : w.handle[a] # NoHandle => w.handle[a] \in Handles(w) /\ w.chunks[w.handle[a]].ptr = a
      BY <1>2 DEF Filed, MergedTo, MergedChunk
    <2>2. Len(m.spare) \in Nat /\ Len(w.spare) = Len(m.spare) + 1
      BY Members DEF MergedTo
    <2>3. ASSUME NEW i \in 1 .. Len(w.spare)
          PROVE  i = 1 \/ (i - 1 \in 1 .. Len(m.spare) /\ w.spare[i] = m.spare[i - 1])
      <3>1. i # 1 => i - 1 \in 1 .. Len(m.spare) /\ (i - 1) + 1 = i
        BY <2>2
      <3> QED
        BY <3>1 DEF MergedTo
    <2>4. w.spare[1] = h2
      BY DEF MergedTo
    <2>5. \A i \in 1 .. Len(w.spare) : w.spare[i] \in Handles(w) /\ ~Is(w, w.spare[i])
      BY <1>2, <1>4, <2>3, <2>4 DEF Filed
    <2>6. \A i, j \in 1 .. Len(w.spare) : w.spare[i] = w.spare[j] => i = j
      <3>1. \A i \in 1 .. Len(m.spare) : m.spare[i] # h2
        BY <1>1 DEF Filed
      <3>2. ASSUME NEW i \in 1 .. Len(w.spare), NEW j \in 1 .. Len(w.spare), i # 1, j # 1, w.spare[i] = w.spare[j]
            PROVE  i = j
        <4>1. i - 1 = j - 1
          BY SMTT(30), <2>3, <3>2 DEF Filed
        <4> QED
          BY <2>2, <4>1
      <3> QED
        BY <2>3, <2>4, <3>1, <3>2
    <2> QED
      BY <1>2, <2>1, <2>5, <2>6 DEF Filed, MergedTo
  <1>8. Regions(w)
    <2>1. ASSUME NEW r \in m.regions PROVE r.ptr # m.chunks[h2].ptr
      <3>1. r.ptr \in Nat /\ r.size \in Nat /\ r.size > 0
        BY Members DEF Regions
      <3>2. Holds(r, r.ptr)
        BY <3>1 DEF Holds, RegionEnd
      <3>3. r.ptr = m.chunks[h2].ptr => PrevLink(m, h2, r)
        BY <1>1, <1>2, <3>2 DEF Linked
      <3> QED
        BY <1>1, <1>2, <1>3, <3>1, <3>3 DEF PrevLink
    <2>2. \A r \in m.regions : r.ptr \in Addresses
      BY Members
    <2> QED
      BY <1>2, <2>1, <2>2 DEF Regions, Apart, MergedTo
  <1>9. Linked(w)
    <2> SUFFICES ASSUME NEW g \in Handles(m), Is(w, g)
                 PROVE  /\ w.chunks[g].size > 0
                        /\ \E r \in m.regions : Holds(r, w.chunks[g].ptr)
                        /\ \A r \in m.regions : Holds(r, w.chunks[g].ptr) => NextLink(w, g, r) /\ PrevLink(w, g, r)
      BY <1>2 DEF Linked
    <2>1. Is(m, g) /\ g # h2
      BY <1>4
    <2>2. MergedChunk(m, w, h1, h2, g) /\ MergedChunk(m, w, h1, h2, h1)
      BY <1>2 DEF MergedTo
    <2>3. m.chunks[g].size > 0 /\ m.chunks[h1].size > 0 /\ m.chunks[h2].size > 0
      BY <1>1, <1>2, <2>1 DEF Linked
    <2>4. w.chunks[g].size > 0
      BY <1>2, <1>3, <2>2, <2>3 DEF MergedChunk
    <2>5. w.chunks[g].ptr = m.chunks[g].ptr
      BY <2>2 DEF MergedChunk
    <2>6. PICK n : n = m.chunks[h2].next
      OBVIOUS
    <2>7. n # NoHandle => Is(m, n) /\ n # h2 /\ n # h1 /\ m.chunks[n].ptr = Fin(m, h2) /\ m.chunks[n].prev = h2
      <3>1. n # NoHandle => Is(m, n) /\ n # h2 /\ m.chunks[n].ptr = Fin(m, h2) /\ m.chunks[n].prev = h2
        BY <1>1, <2>6, Neighbours
      <3>2. m.chunks[h1].ptr # Fin(m, h2)
        BY <1>1, <1>2, <1>3, <2>3 DEF Fin
      <3> QED
        BY <3>1, <3>2
    <2>8. ASSUME NEW r \in m.regions, Holds(r, m.chunks[g].ptr)
          PROVE  NextLink(w, g, r)
      <3>1. NextLink(m, g, r)
        BY <2>1, <2>8 DEF Linked
      <3>2. CASE g = h1
        <4>1. NextLink(m, h2, r)
          BY <1>1, <1>2, <2>8, <3>2 DEF Linked
        <4>2. Fin(w, g) = Fin(m, h2) /\ w.chunks[g].next = n
          BY <1>5, <2>2, <2>6, <3>2 DEF MergedChunk
        <4>3. CASE n = NoHandle
          BY <2>6, <4>1, <4>2, <4>3, <1>3 DEF NextLink, Is
        <4>4. CASE n # NoHandle
          <5>1. n \in Handles(m) /\ MergedChunk(m, w, h1, h2, n)
            BY <2>7, <4>4 DEF Is, MergedTo
          <5>2. w.chunks[n].ptr = m.chunks[n].ptr /\ w.chunks[n].prev = h1
            BY <2>6, <5>1 DEF MergedChunk
          <5> QED
            BY <1>4, <2>6, <2>7, <3>2, <4>1, <4>2, <4>4, <5>2 DEF NextLink
        <4> QED
          BY <4>3, <4>4
      <3>3. CASE g # h1
        <4>1. Fin(w, g) = Fin(m, g) /\ w.chunks[g].next = m.chunks[g].next
          BY <1>5, <2>2, <3>3 DEF MergedChunk
        <4>2. PICK k : k = m.chunks[g].next
          OBVIOUS
        <4>3. CASE k = NoHandle
          BY <1>3, <3>1, <4>1, <4>2, <4>3 DEF NextLink, Is
        <4>4. CASE k # NoHandle
          <5>1. Is(m, k) /\ m.chunks[k].ptr = Fin(m, g) /\ m.chunks[k].prev = g
            BY <2>1, <4>2, <4>4, Neighbours
          <5>2. k # h2 /\ k # n
            BY <1>1, <2>1, <2>7, <3>3, <4>4, <5>1
          <5>3. w.chunks[k].ptr = m.chunks[k].ptr /\ w.chunks[k].prev = g
            BY <2>6, <5>1, <5>2 DEF MergedTo, MergedChunk, Is
          <5> QED
            BY <1>4, <3>1, <4>1, <4>2, <4>4, <5>1, <5>2, <5>3 DEF NextLink
        <4> QED
          BY <4>3, <4>4
      <3> QED
        BY <3>2, <3>3
    <2>9. ASSUME NEW r \in m.regions, Holds(r, m.chunks[g].ptr)
          PROVE  PrevLink(w, g, r)
      <3>1. PrevLink(m, g, r)
        BY <2>1, <2>9 DEF Linked
      <3>2. CASE g = n
        <4>1. n # NoHandle
          BY <1>3, <3>2
        <4>2. w.chunks[g].prev = h1 /\ m.chunks[g].prev = h2 /\ Is(w, h1)
          BY <1>1, <1>4, <2>2, <2>6, <2>7, <3>2, <4>1 DEF MergedChunk
        <4>3. Fin(w, h1) = m.chunks[g].ptr /\ w.chunks[h1].next = g
          BY <1>2, <1>5, <2>2, <2>6, <2>7, <3>2, <4>1 DEF MergedChunk
        <4>4. m.chunks[g].ptr > r.ptr
          BY <1>2, <1>3, <3>1, <4>2 DEF PrevLink
        <4> QED
          BY <2>5, <4>2, <4>3, <4>4 DEF PrevLink
      <3>3. CASE g # n
        <4>1. w.chunks[g].prev = m.chunks[g].prev
          BY <2>2, <2>6, <3>3 DEF MergedChunk
        <4>2. PICK p : p = m.chunks[g].prev
          OBVIOUS
        <4>3. CASE p = NoHandle
          BY <1>3, <2>5, <3>1, <4>1, <4>2, <4>3 DEF PrevLink, Is
        <4>4. CASE p # NoHandle
          <5>1. m.chunks[g].ptr > r.ptr /\ Is(m, p) /\ Fin(m, p) = m.chunks[g].ptr /\ m.chunks[p].next = g
            BY <3>1, <4>2, <4>4 DEF PrevLink
          <5>2. p # h2 /\ p # h1
            BY <2>1, <2>6, <3>3, <5>1
          <5>3. w.chunks[p].next = g /\ Fin(w, p) = Fin(m, p)
            BY <1>5, <5>1, <5>2 DEF MergedTo, MergedChunk, Is
          <5> QED
            BY <1>4, <2>5, <4>1, <4>2, <5>1, <5>2, <5>3 DEF PrevLink
        <4> QED
          BY <4>3, <4>4
      <3> QED
        BY <3>2, <3>3
    <2> QED
      BY <2>1, <2>4, <2>5, <2>8, <2>9 DEF Linked
  <1>10. Tiled(w)
    <2>1. ASSUME NEW g \in Handles(m), NEW h \in Handles(m), Is(w, g), Is(w, h), g # h
          PROVE  Fin(w, g) <= w.chunks[h].ptr \/ Fin(w, h) <= w.chunks[g].ptr
      <3>1. Is(m, g) /\ Is(m, h) /\ g # h2 /\ h # h2
        BY <1>4, <2>1
      <3>2. /\ Fin(m, g) <= m.chunks[h].ptr \/ Fin(m, h) <= m.chunks[g].ptr
            /\ Fin(m, g) <= m.chunks[h2].ptr \/ Fin(m, h2) <= m.chunks[g].ptr
            /\ Fin(m, h) <= m.chunks[h2].ptr \/ Fin(m, h2) <= m.chunks[h].ptr
        BY <1>1, <1>2, <2>1, <3>1 DEF Tiled
      <3>3. w.chunks[g].ptr = m.chunks[g].ptr /\ w.chunks[h].ptr = m.chunks[h].ptr
        BY DEF MergedTo, MergedChunk
      <3>4. m.chunks[g].size > 0 /\ m.chunks[h].size > 0 /\ m.chunks[h1].size > 0 /\ m.chunks[h2].size > 0
        BY <1>1, <1>2, <3>1 DEF Linked
      <3>5. Fin(w, g) = (IF g = h1 THEN Fin(m, h2) ELSE Fin(m, g)) /\ Fin(w, h) = IF h = h1 THEN Fin(m, h2) ELSE Fin(m, h)
        BY <1>5
      <3>6. /\ m.chunks[g].ptr \in Int /\ m.chunks[g].size \in Nat /\ m.chunks[h].ptr \in Int /\ m.chunks[h].size \in Nat
            /\ m.chunks[h1].ptr \in Int /\ m.chunks[h1].size \in Nat /\ m.chunks[h2].ptr \in Int /\ m.chunks[h2].size \in Nat
        BY <1>2, <1>3
      <3> QED
        BY <1>1, <2>1, <3>2, <3>3, <3>4, <3>5, <3>6 DEF Fin
    <2>2. ASSUME NEW r \in m.regions, NEW a \in Addresses, Holds(r, a)
          PROVE  \E h \in Handles(m) : Is(w, h) /\ Covers(w, h, a)
      <3>1. PICK h \in Handles(m) : Is(m, h) /\ Covers(m, h, a)
        BY <2>2 DEF Tiled
      <3>2. a \in Int
        BY BFCAssumption DEF Addresses
      <3>3. CASE h = h2
        BY <1>1, <1>2, <1>4, <1>6, <3>1, <3>2, <3>3
      <3>4. CASE h # h2
        BY <1>4, <1>6, <3>1, <3>2, <3>4
      <3> QED
        BY <3>3, <3>4
    <2> QED
      BY <1>2, <2>1, <2>2 DEF Tiled
  <1>11. UsedBytes(w) = UsedBytes(m)
    <2>1. \A a \in Addresses : a \in Int
      BY BFCAssumption DEF Addresses
    <2>2. \A g \in Handles(m) : w.chunks[g].used <=> m.chunks[g].used /\ g # h2
      BY DEF MergedTo, MergedChunk
    <2>3. ASSUME NEW a \in Addresses, NEW g \in Handles(m)
          PROVE  Is(w, g) /\ w.chunks[g].used /\ Covers(w, g, a) <=> Is(m, g) /\ m.chunks[g].used /\ Covers(m, g, a)
      BY <1>4, <1>6, <2>1, <2>2
    <2> QED
      BY <1>2, <2>3 DEF UsedBytes
  <1> QED
    BY <1>4, <1>7, <1>8, <1>9, <1>10, <1>11

--------------------------------------------------------------------------------
(* Coalescing *)

Times == [Addresses -> Nat]

(* From m to w free chunks may have been merged; nothing else has happened to *)
(* chunks, and what a chunk says about its bytes is still true.               *)
Coarser(m, w) ==
  /\ Handles(w) = Handles(m) /\ SameRest(m, w)
  /\ \A a \in Addresses : w.handle[a] # NoHandle => w.handle[a] = m.handle[a]
  /\ \A g \in Handles(m) : /\ w.chunks[g].ptr = m.chunks[g].ptr
                           /\ w.chunks[g].used <=> m.chunks[g].used
                           /\ m.chunks[g].used => Is(w, g) /\ w.chunks[g].size = m.chunks[g].size
  /\ \A F \in Times : Stamped(m, F) => Stamped(w, F)

(* Coarser is reflexive. *)
LEMMA CoarserSame ==
  ASSUME NEW m, NEW hand, Good(m, hand)
  PROVE  Coarser(m, m)
  BY DEF Coarser, SameRest, Good, Binned

(* Coarser is transitive. *)
LEMMA CoarserTwice ==
  ASSUME NEW m, NEW v, NEW w, Coarser(m, v), Coarser(v, w)
  PROVE  Coarser(m, w)
  <1>1. Handles(w) = Handles(m) /\ SameRest(m, w)
    BY DEF Coarser, SameRest
  <1>2. \A a \in Addresses : w.handle[a] # NoHandle => w.handle[a] = m.handle[a]
    BY DEF Coarser
  <1>3. \A g \in Handles(m) : /\ w.chunks[g].ptr = m.chunks[g].ptr
                              /\ w.chunks[g].used <=> m.chunks[g].used
                              /\ m.chunks[g].used => Is(w, g) /\ w.chunks[g].size = m.chunks[g].size
    BY DEF Coarser
  <1>4. \A F \in Times : Stamped(m, F) => Stamped(w, F)
    BY DEF Coarser
  <1> QED
    BY <1>1, <1>2, <1>3, <1>4 DEF Coarser

(* A chunk and its predecessor. *)
LEMMA Predecessor ==
  ASSUME NEW m \in MemType, Linked(m), NEW h, Is(m, h), NEW p, p = m.chunks[h].prev, p # NoHandle
  PROVE  Is(m, p) /\ m.chunks[p].next = h
  <1>1. h \in Handles(m)
    BY DEF Is
  <1>2. PICK r \in m.regions : Holds(r, m.chunks[h].ptr)
    BY <1>1 DEF Linked
  <1> QED
    BY <1>1, <1>2 DEF Linked, PrevLink

(* The merged chunk says the later of the two times. *)
LEMMA MergeStamps ==
  ASSUME NEW m \in MemType, Regions(m), Linked(m), NEW h1, NEW h2, Is(m, h1), m.chunks[h1].next = h2, h2 # NoHandle,
         ~m.chunks[h1].used, ~m.chunks[h2].used,
         NEW w, MergedTo(m, w, h1, h2), \A g : Is(w, g) <=> Is(m, g) /\ g # h2,
         NEW F \in Times, Stamped(m, F)
  PROVE  Stamped(w, F)
  <1>1. Is(m, h2) /\ h2 # h1 /\ m.chunks[h2].ptr = Fin(m, h1)
    BY Neighbours
  <1>2. h1 \in Handles(m) /\ h2 \in Handles(m) /\ Handles(w) = Handles(m) /\ w.frontier = m.frontier
    BY <1>1 DEF Is, MergedTo, SameRest
  <1>3. \A g \in Handles(m) : m.chunks[g].ptr \in Int /\ m.chunks[g].size \in Nat /\ m.chunks[g].freed \in Nat
    BY Members
  <1> SUFFICES ASSUME NEW g \in Handles(m), Is(w, g), ~w.chunks[g].used, NEW a \in Addresses, Covers(w, g, a)
               PROVE  F[a] <= w.chunks[g].freed \/ F[a] < w.frontier
    BY <1>2 DEF Stamped
  <1>4. Is(m, g) /\ g # h2 /\ MergedChunk(m, w, h1, h2, g)
    BY DEF MergedTo
  <1>5. ~m.chunks[g].used
    BY <1>4 DEF MergedChunk
  <1>6. a \in Int /\ F[a] \in Nat /\ m.frontier \in Nat
    BY Members, BFCAssumption DEF Addresses, Times
  <1>7. CASE g # h1
    <2>1. Covers(m, g, a) /\ w.chunks[g].freed = m.chunks[g].freed
      BY <1>4, <1>7 DEF Covers, Fin, MergedChunk
    <2> QED
      BY <1>2, <1>4, <1>5, <2>1 DEF Stamped
  <1>8. CASE g = h1
    <2>1. Covers(m, h1, a) \/ Covers(m, h2, a)
      BY <1>1, <1>2, <1>3, <1>4, <1>6, <1>8 DEF Covers, Fin, MergedChunk
    <2>2. \/ F[a] <= m.chunks[h1].freed \/ F[a] < m.frontier
          \/ F[a] <= m.chunks[h2].freed
      BY <1>1, <1>2, <1>5, <2>1 DEF Stamped
    <2>3. w.chunks[g].freed = Max({m.chunks[h1].freed, m.chunks[h2].freed})
      BY <1>4, <1>8 DEF MergedChunk
    <2>4. PICK x \in Nat, y \in Nat : x = m.chunks[h1].freed /\ y = m.chunks[h2].freed
      BY <1>2, <1>3
    <2>5. w.chunks[g].freed = IF x >= y THEN x ELSE y
      BY <2>3, <2>4, Pairs
    <2> QED
      BY <1>2, <1>6, <2>2, <2>4, <2>5
  <1> QED
    BY <1>7, <1>8

(* Bins and places are apart from the rest of the invariant. *)
LEMMA GoodAgain ==
  ASSUME NEW m, NEW hand, Good(m, hand), NEW w \in MemType, SamePlaces(m, w), SameRest(m, w),
         w.timestamped = m.timestamped, NEW x, Binned(w, x)
  PROVE  Good(w, x)
  <1>1. m \in MemType
    BY DEF Good
  <1>2. \A h : Is(w, h) <=> Is(m, h)
    BY <1>1, PlacesKept
  <1>3. Regions(w) /\ Linked(w) /\ Tiled(w) /\ UsedBytes(w) = UsedBytes(m)
    BY <1>1, PlacesKept DEF Good
  <1>4. Filed(w)
    BY <1>2 DEF Good, Filed, SamePlaces, SameChunk
  <1>5. Counted(w)
    BY <1>3 DEF Good, Counted, SameRest
  <1> QED
    BY <1>3, <1>4, <1>5 DEF Good

(* Merged chunks that are where they were still are. *)
LEMMA PlacesMerged ==
  ASSUME NEW m, NEW hand, Good(m, hand), NEW w \in MemType, SamePlaces(m, w),
         \A g \in Handles(m) : w.chunks[g].freed = m.chunks[g].freed, NEW x, Merged(m, x)
  PROVE  Merged(w, x)
  <1>1. m \in MemType /\ Regions(m) /\ Linked(m)
    BY DEF Good
  <1>2. \A g : Is(w, g) <=> Is(m, g)
    BY <1>1, PlacesKept
  <1>3. ASSUME NEW g, Is(m, g), Settled(m, g) PROVE Settled(w, g)
    <2>1. g \in Handles(m) /\ w.chunks[g].next = m.chunks[g].next
      BY <1>3 DEF Is, SamePlaces, SameChunk
    <2>2. m.chunks[g].next # NoHandle => m.chunks[g].next \in Handles(m)
      BY <1>1, <1>3, Neighbours DEF Is
    <2> QED
      BY <1>3, <2>1, <2>2 DEF Settled, SamePlaces, SameChunk
  <1>4. \A g : Is(m, g) => g \in Handles(m)
    BY DEF Is
  <1> QED
    BY <1>2, <1>3, <1>4 DEF Merged, SamePlaces, SameChunk

(* Merging the chunk in hand with the next one and then with the one before it *)
(* leaves nothing to merge.                                                    *)
LEMMA MergeMerged ==
  ASSUME NEW m \in MemType, Regions(m), Linked(m), NEW h1, NEW h2, Is(m, h1), m.chunks[h1].next = h2, h2 # NoHandle,
         ~m.chunks[h1].used, ~m.chunks[h2].used,
         NEW w, MergedTo(m, w, h1, h2), \A g : Is(w, g) <=> Is(m, g) /\ g # h2,
         NEW hand, Merged(m, hand)
  PROVE  /\ hand = h1 => Merged(w, h1) /\ Settled(w, h1)
         /\ hand = h2 /\ Settled(m, h2) => Merged(w, NoHandle)
  <1>1. Is(m, h2) /\ h2 # h1 /\ m.chunks[h2].ptr = Fin(m, h1) /\ m.chunks[h2].prev = h1
    BY Neighbours
  <1>2. h1 \in Handles(m) /\ h2 \in Handles(m) /\ h1 # NoHandle
    BY <1>1, Members DEF Is
  <1>3. ASSUME NEW g \in Handles(m)
        PROVE  /\ w.chunks[g].next = IF g = h1 THEN m.chunks[h2].next ELSE m.chunks[g].next
               /\ w.chunks[g].used <=> m.chunks[g].used
               /\ w.chunks[g].freed = IF g = h1 THEN Max({m.chunks[h1].freed, m.chunks[h2].freed}) ELSE m.chunks[g].freed
    BY DEF MergedTo, MergedChunk
  <1>4. ASSUME NEW g, Is(m, g), Settled(m, g) PROVE g # h1 /\ (g # h2 => Settled(w, g)) /\ (g = h2 => Settled(w, h1))
    <2>1. g \in Handles(m) /\ g # h1
      BY <1>4 DEF Is, Settled
    <2>2. m.chunks[g].next # NoHandle => m.chunks[g].next \in Handles(m)
      BY <1>4, Neighbours DEF Is
    <2> QED
      BY <1>2, <1>3, <1>4, <2>1, <2>2 DEF Settled
  <1>5. ASSUME NEW g, Is(w, g) PROVE w.chunks[g].freed = 0
    <2>1. g \in Handles(m) /\ Is(m, g)
      BY <1>5 DEF Is
    <2>2. m.chunks[g].freed = 0 /\ m.chunks[h1].freed = 0 /\ m.chunks[h2].freed = 0
      BY <1>1, <2>1 DEF Merged
    <2>3. 0 \in Nat
      OBVIOUS
    <2>4. Max({0, 0}) = 0
      BY ONLY <2>3, Pairs
    <2> QED
      BY <1>3, <2>1, <2>2, <2>4
  <1>6. ASSUME hand = h1 PROVE Merged(w, h1) /\ Settled(w, h1)
    <2>1. m.chunks[h2].next # h1
      <3>1. ASSUME m.chunks[h2].next = h1 PROVE FALSE
        <4>1. m.chunks[h1].ptr = Fin(m, h2)
          BY <1>1, <1>2, <3>1, Neighbours
        <4>2. m.chunks[h1].size > 0 /\ m.chunks[h2].size > 0
          BY <1>1, <1>2 DEF Linked
        <4>3. /\ m.chunks[h1].ptr \in Int /\ m.chunks[h2].ptr \in Int
              /\ m.chunks[h1].size \in Nat /\ m.chunks[h2].size \in Nat
          BY <1>2, Members
        <4> QED
          BY <1>1, <4>1, <4>2, <4>3 DEF Fin
      <3> QED
        BY <3>1
    <2>2. Settled(m, h2)
      BY <1>1, <1>6, <2>1 DEF Merged
    <2>3. Settled(w, h1)
      BY <1>1, <1>4, <2>2
    <2>4. ASSUME NEW g, Is(w, g), ~w.chunks[g].used, g # h1 PROVE Settled(w, g) \/ w.chunks[g].next = h1
      <3>1. g \in Handles(m) /\ Is(m, g) /\ g # h2
        BY <2>4 DEF Is
      <3>2. ~m.chunks[g].used /\ w.chunks[g].next = m.chunks[g].next
        BY <1>3, <2>4, <3>1
      <3>3. Settled(m, g) \/ m.chunks[g].next = h1
        BY <1>6, <2>4, <3>1, <3>2 DEF Merged
      <3> QED
        BY <1>4, <3>1, <3>2, <3>3
    <2> QED
      BY <1>5, <2>3, <2>4 DEF Merged
  <1>7. ASSUME hand = h2, Settled(m, h2) PROVE Merged(w, NoHandle)
    <2>1. Settled(w, h1)
      BY <1>1, <1>4, <1>7
    <2>2. ASSUME NEW g, Is(w, g), ~w.chunks[g].used, g # h1 PROVE Settled(w, g)
      <3>1. g \in Handles(m) /\ Is(m, g) /\ g # h2
        BY <2>2 DEF Is
      <3>2. ~m.chunks[g].used
        BY <1>3, <2>2, <3>1
      <3>3. Settled(m, g) \/ m.chunks[g].next = h2
        BY <1>7, <3>1, <3>2 DEF Merged
      <3>4. m.chunks[g].next # h2
        BY <1>1, <2>2, <3>1, Neighbours
      <3> QED
        BY <1>4, <3>1, <3>3, <3>4
    <2> QED
      BY <1>5, <2>1, <2>2 DEF Merged
  <1> QED
    BY <1>6, <1>7

(* Merging the chunk in hand with a free neighbour. *)
LEMMA MergeStep ==
  ASSUME NEW m, NEW hand, Good(m, hand), NEW h1, NEW h2, Is(m, h1), m.chunks[h1].next = h2, h2 # NoHandle,
         ~m.chunks[h1].used, ~m.chunks[h2].used,
         NEW y, (hand = h1 /\ y = h2) \/ (hand = h2 /\ y = h1),
         NEW w, w = Merge(RemoveFreeChunkFromBin(m, y), h1, h2)
  PROVE  /\ Good(w, h1) /\ Is(w, h1) /\ ~w.chunks[h1].used
         /\ Coarser(m, w) /\ w.timestamped = m.timestamped
         /\ Merged(m, hand) /\ hand = h1 => Merged(w, h1) /\ Settled(w, h1)
         /\ Merged(m, hand) /\ hand = h2 /\ Settled(m, h2) => Merged(w, NoHandle)
  <1>1. m \in MemType /\ Filed(m) /\ Regions(m) /\ Linked(m) /\ Tiled(m) /\ Binned(m, hand)
    BY DEF Good
  <1>2. Is(m, h2) /\ h2 # h1 /\ m.chunks[h2].ptr = Fin(m, h1)
    BY <1>1, Neighbours
  <1>3. h1 \in Handles(m) /\ h2 \in Handles(m) /\ y \in Handles(m)
    BY <1>2 DEF Is
  <1>4. PICK v : v = RemoveFreeChunkFromBin(m, y)
    OBVIOUS
  <1>5. NoBin \in Int /\ v = [m EXCEPT !.chunks[y].bin = NoBin]
    BY <1>4 DEF NoBin, RemoveFreeChunkFromBin
  <1>6. /\ v \in MemType /\ SamePlaces(m, v) /\ SameRest(m, v) /\ v.timestamped = m.timestamped
        /\ \A g \in Handles(m) : /\ v.chunks[g].freed = m.chunks[g].freed
                                 /\ v.chunks[g].bin = IF g = y THEN NoBin ELSE m.chunks[g].bin
    <2>1. m \in MemType /\ y \in Handles(m)
      BY <1>1, <1>3
    <2>2. BinSet(m, v, y, NoBin)
      BY ONLY <1>5, <2>1, PutBin
    <2> QED
      BY <2>2 DEF BinSet
  <1>7. \A g : Is(v, g) <=> Is(m, g)
    BY <1>1, <1>6, PlacesKept
  <1>8. Regions(v) /\ Linked(v) /\ Tiled(v) /\ UsedBytes(v) = UsedBytes(m)
    BY <1>1, <1>6, PlacesKept
  <1>9. Filed(v)
    BY <1>1, <1>6, <1>7 DEF Filed, SamePlaces, SameChunk
  <1>10. /\ Handles(v) = Handles(m) /\ v.chunks[h1].next = h2 /\ ~v.chunks[h1].used /\ ~v.chunks[h2].used
         /\ v.chunks[h2].next = m.chunks[h2].next
    BY <1>3, <1>6 DEF SamePlaces, SameChunk
  <1>11. MergedTo(v, w, h1, h2)
    <2>1. PICK n : n = v.chunks[h2].next
      OBVIOUS
    <2>2. n # NoHandle => Is(v, n) /\ n # h2 /\ v.chunks[n].ptr = Fin(v, h2)
      BY <1>2, <1>6, <1>7, <1>8, <2>1, Neighbours
    <2>3. v.chunks[h2].ptr = Fin(v, h1) /\ v.chunks[h1].size > 0 /\ v.chunks[h2].size > 0
      BY <1>2, <1>3, <1>6, <1>7, <1>8 DEF SamePlaces, SameChunk, Fin, Linked
    <2>4. /\ v.chunks[h1].ptr \in Int /\ v.chunks[h1].size \in Nat
          /\ v.chunks[h2].ptr \in Int /\ v.chunks[h2].size \in Nat
      BY <1>3, <1>6, <1>10, Members
    <2>5. n # h1
      <3>1. h1 # NoHandle
        BY <1>1, <1>3, Members
      <3> QED
        BY <2>2, <2>3, <2>4, <3>1 DEF Fin
    <2>6. n # h2
      <3>1. h2 # NoHandle
        OBVIOUS
      <3> QED
        BY <2>2, <3>1
    <2>7. n \in Handles(v) \cup {NoHandle}
      BY <2>2 DEF Is
    <2>8. w = Merge(v, h1, h2)
      BY <1>4
    <2>9. v \in MemType /\ h1 \in Handles(v) /\ h2 \in Handles(v) /\ h1 # h2
      BY <1>2, <1>3, <1>6, <1>10
    <2> QED
      BY ONLY <2>1, <2>5, <2>6, <2>7, <2>8, <2>9, MergeFacts
  <1>12. /\ \A g : Is(w, g) <=> Is(v, g) /\ g # h2
         /\ Filed(w) /\ Regions(w) /\ Linked(w) /\ Tiled(w)
         /\ UsedBytes(w) = UsedBytes(v)
    <2>1. v \in MemType /\ Is(v, h1) /\ h2 # NoHandle
      BY <1>6, <1>7
    <2> QED
      BY ONLY <1>8, <1>9, <1>10, <1>11, <2>1, MergeKeeps
  <1>13. \A g : Is(w, g) <=> Is(m, g) /\ g # h2
    BY <1>7, <1>12
  <1>14. w \in MemType /\ Handles(w) = Handles(m) /\ SameRest(m, w) /\ w.timestamped = m.timestamped
    BY <1>6, <1>10, <1>11 DEF MergedTo, SameRest
  <1>15. ASSUME NEW g \in Handles(m)
         PROVE  /\ w.chunks[g].ptr = m.chunks[g].ptr
                /\ w.chunks[g].used <=> m.chunks[g].used
                /\ g # h1 => w.chunks[g].size = m.chunks[g].size
                /\ w.chunks[g].bin = IF g = h2 \/ g = y THEN NoBin ELSE m.chunks[g].bin
    <2>1. MergedChunk(v, w, h1, h2, g) /\ SameChunk(m, v, g)
      BY <1>6, <1>10, <1>11 DEF MergedTo, SamePlaces
    <2>2. w.chunks[g].bin = IF g = h2 \/ g = y THEN NoBin ELSE m.chunks[g].bin
      BY <1>6, <2>1 DEF MergedChunk
    <2>3. w.chunks[g].used <=> m.chunks[g].used
      BY <2>1 DEF MergedChunk, SameChunk
    <2> QED
      BY <2>1, <2>2, <2>3 DEF MergedChunk, SameChunk
  <1>16. Binned(w, h1)
    <2>1. m.chunks[hand].bin = NoBin
      BY <1>1, <1>3 DEF Binned
    <2>2. ASSUME NEW g \in Handles(m)
          PROVE  /\ w.chunks[g].used => Is(w, g) /\ w.chunks[g].bin = NoBin
                 /\ w.chunks[g].bin # NoBin => Is(w, g)
                 /\ Is(w, g) /\ ~w.chunks[g].used /\ g # h1 => w.chunks[g].bin = BinNumForSize(w.chunks[g].size)
                 /\ g = h1 => w.chunks[g].bin = NoBin
      BY <1>1, <1>13, <1>15, <2>1 DEF Binned
    <2> QED
      BY <1>14, <2>2 DEF Binned
  <1>17. Counted(w)
    BY <1>8, <1>12, <1>14 DEF Good, Counted, SameRest
  <1>18. Good(w, h1)
    BY <1>12, <1>14, <1>16, <1>17 DEF Good
  <1>19. ASSUME NEW F \in Times, Stamped(m, F) PROVE Stamped(w, F)
    <2>1. Stamped(v, F)
      BY <1>6, <1>7, <1>19 DEF Stamped, SamePlaces, SameChunk, SameRest, Covers, Fin
    <2> QED
      BY <1>6, <1>7, <1>8, <1>10, <1>11, <1>12, <2>1, MergeStamps
  <1>20. \A a \in Addresses : w.handle[a] # NoHandle => w.handle[a] = m.handle[a]
    BY <1>6, <1>11 DEF MergedTo, SamePlaces
  <1>21. \A g \in Handles(m) : m.chunks[g].used => Is(w, g) /\ w.chunks[g].size = m.chunks[g].size
    BY <1>1, <1>13, <1>15 DEF Binned
  <1>22. Coarser(m, w)
    BY <1>14, <1>15, <1>19, <1>20, <1>21 DEF Coarser
  <1>23. ASSUME Merged(m, hand)
         PROVE  /\ hand = h1 => Merged(w, h1) /\ Settled(w, h1)
                /\ hand = h2 /\ Settled(m, h2) => Merged(w, NoHandle)
    <2>1. Merged(v, hand)
      BY <1>6, <1>23, PlacesMerged
    <2>2. Settled(m, h2) => Settled(v, h2)
      <3>1. m.chunks[h2].next # NoHandle => m.chunks[h2].next \in Handles(m)
        BY <1>1, <1>2, Neighbours DEF Is
      <3> QED
        BY <1>6, <1>10, <3>1 DEF Settled, SamePlaces, SameChunk
    <2>3. v \in MemType /\ Is(v, h1) /\ h2 # NoHandle
      BY <1>6, <1>7
    <2>4. /\ hand = h1 => Merged(w, h1) /\ Settled(w, h1)
          /\ hand = h2 /\ Settled(v, h2) => Merged(w, NoHandle)
      BY ONLY <1>8, <1>10, <1>11, <1>12, <2>1, <2>3, MergeMerged
    <2> QED
      BY <2>2, <2>4
  <1> QED
    BY <1>2, <1>3, <1>13, <1>14, <1>15, <1>18, <1>22, <1>23

(* Chunks that are where they were, freed when they were. *)
LEMMA PlacesCoarser ==
  ASSUME NEW m, NEW hand, Good(m, hand), NEW w \in MemType, SamePlaces(m, w), SameRest(m, w),
         \A g \in Handles(m) : w.chunks[g].freed = m.chunks[g].freed
  PROVE  Coarser(m, w)
  <1>1. m \in MemType /\ Binned(m, hand)
    BY DEF Good
  <1>2. \A g : Is(w, g) <=> Is(m, g)
    BY <1>1, PlacesKept
  <1>3. \A g \in Handles(m) : m.chunks[g].used => Is(w, g)
    BY <1>1, <1>2 DEF Binned
  <1>4. ASSUME NEW F \in Times, Stamped(m, F) PROVE Stamped(w, F)
    BY <1>2, <1>4 DEF Stamped, SamePlaces, SameChunk, SameRest, Covers, Fin
  <1> QED
    BY <1>2, <1>3, <1>4 DEF Coarser, SamePlaces, SameChunk

(* A chunk is taken out of its bin, and put into one. *)
OutOfBin(m, w, h) ==
  /\ Good(w, h) /\ Is(w, h) /\ ~w.chunks[h].used
  /\ Coarser(m, w) /\ w.timestamped = m.timestamped
  /\ w.chunks[h].size = m.chunks[h].size /\ w.chunks[h].freed = m.chunks[h].freed
  /\ \A x : Merged(m, x) => Merged(w, x)
IntoBin(m, w, h) ==
  /\ Good(w, NoHandle) /\ Is(w, h) /\ ~w.chunks[h].used
  /\ Coarser(m, w) /\ w.timestamped = m.timestamped
  /\ w.chunks[h].size = m.chunks[h].size /\ w.chunks[h].freed = m.chunks[h].freed
  /\ \A x : Merged(m, x) => Merged(w, x)

(* RemoveFreeChunkFromBin has the chunk in hand. *)
LEMMA RemoveStep ==
  ASSUME NEW m, Good(m, NoHandle), NEW h, Is(m, h), ~m.chunks[h].used,
         NEW w, w = RemoveFreeChunkFromBin(m, h)
  PROVE  OutOfBin(m, w, h)
  <1>1. m \in MemType /\ h \in Handles(m) /\ NoBin \in Int /\ Binned(m, NoHandle)
    BY DEF Good, Is, NoBin
  <1>2. BinSet(m, w, h, NoBin)
    BY ONLY <1>1, w = RemoveFreeChunkFromBin(m, h), PutBin DEF RemoveFreeChunkFromBin
  <1>3. /\ w \in MemType /\ SamePlaces(m, w) /\ SameRest(m, w) /\ w.timestamped = m.timestamped
        /\ \A g \in Handles(m) : w.chunks[g].freed = m.chunks[g].freed
        /\ Handles(w) = Handles(m) /\ \A g \in Handles(m) : SameChunk(m, w, g)
    BY <1>2 DEF BinSet, SamePlaces
  <1>4. \A g : Is(w, g) <=> Is(m, g)
    BY <1>1, <1>3, PlacesKept
  <1>5. \A g \in Handles(m) : w.chunks[g].bin = IF g = h THEN NoBin ELSE m.chunks[g].bin
    BY <1>2 DEF BinSet
  <1>6. \A g \in Handles(m) : g # NoHandle
    BY <1>1, Members
  <1>7. Binned(w, h)
    BY <1>1, <1>3, <1>4, <1>5, <1>6 DEF Binned, SameChunk
  <1>8. Good(w, h)
    BY <1>3, <1>7, GoodAgain
  <1>9. Coarser(m, w)
    BY <1>3, PlacesCoarser
  <1>10. \A x : Merged(m, x) => Merged(w, x)
    BY <1>3, PlacesMerged
  <1> QED
    BY <1>1, <1>3, <1>4, <1>8, <1>9, <1>10 DEF OutOfBin, SameChunk

(* InsertFreeChunkIntoBin ends that. *)
LEMMA InsertStep ==
  ASSUME NEW m, NEW h, Good(m, h), Is(m, h), ~m.chunks[h].used,
         NEW w, w = InsertFreeChunkIntoBin(m, h)
  PROVE  IntoBin(m, w, h)
  <1>1. m \in MemType /\ h \in Handles(m) /\ Binned(m, h)
    BY DEF Good, Is
  <1>2. PICK b : b = BinNumForSize(m.chunks[h].size)
    OBVIOUS
  <1>3. b \in Int /\ b # NoBin
    BY <1>1, <1>2, Members, BinFacts DEF NoBin
  <1>4. w = [m EXCEPT !.chunks[h].bin = b]
    BY <1>2 DEF InsertFreeChunkIntoBin
  <1>5. BinSet(m, w, h, b)
    BY ONLY <1>1, <1>3, <1>4, PutBin
  <1>6. /\ w \in MemType /\ SamePlaces(m, w) /\ SameRest(m, w) /\ w.timestamped = m.timestamped
        /\ \A g \in Handles(m) : w.chunks[g].freed = m.chunks[g].freed
        /\ Handles(w) = Handles(m) /\ \A g \in Handles(m) : SameChunk(m, w, g)
    BY <1>5 DEF BinSet, SamePlaces
  <1>7. \A g : Is(w, g) <=> Is(m, g)
    BY <1>1, <1>6, PlacesKept
  <1>8. \A g \in Handles(m) : w.chunks[g].bin = IF g = h THEN b ELSE m.chunks[g].bin
    BY <1>5 DEF BinSet
  <1>9. \A g \in Handles(m) : g # NoHandle
    BY <1>1, Members
  <1>10. Binned(w, NoHandle)
    BY <1>1, <1>2, <1>6, <1>7, <1>8, <1>9 DEF Binned, SameChunk
  <1>11. Good(w, NoHandle)
    BY <1>6, <1>10, GoodAgain
  <1>12. Coarser(m, w)
    BY <1>6, PlacesCoarser
  <1>13. \A x : Merged(m, x) => Merged(w, x)
    BY <1>6, PlacesMerged
  <1> QED
    BY <1>1, <1>6, <1>7, <1>11, <1>12, <1>13 DEF IntoBin, SameChunk

(* TryToCoalesce merges the chunk in hand with the neighbours it may be merged with. *)
LEMMA CoalesceStep ==
  ASSUME NEW m, NEW h, Good(m, h), Is(m, h), ~m.chunks[h].used, NEW ign \in BOOLEAN,
         NEW t, t = TryToCoalesce(m, h, ign)
  PROVE  /\ Good(t.m, t.h) /\ Is(t.m, t.h) /\ ~t.m.chunks[t.h].used
         /\ Coarser(m, t.m) /\ t.m.timestamped = m.timestamped
         /\ Merged(m, h) => Merged(t.m, NoHandle)
  <1>0. m \in MemType /\ Regions(m) /\ Linked(m)
    BY DEF Good
  <1>1. PICK n : n = m.chunks[h].next
    OBVIOUS
  <1>2. PICK m1 : m1 = IF Mergeable(m, n, ign) THEN Merge(RemoveFreeChunkFromBin(m, n), h, n) ELSE m
    OBVIOUS
  <1>3. PICK p : p = m1.chunks[h].prev
    OBVIOUS
  <1>4. /\ Good(m1, h) /\ Is(m1, h) /\ ~m1.chunks[h].used
        /\ Coarser(m, m1) /\ m1.timestamped = m.timestamped
        /\ Merged(m, h) => Merged(m1, h) /\ Settled(m1, h)
    <2>1. CASE Mergeable(m, n, ign)
      <3>1. n # NoHandle /\ ~m.chunks[n].used
        BY <2>1 DEF Mergeable
      <3>2. m1 = Merge(RemoveFreeChunkFromBin(m, n), h, n)
        BY <1>2, <2>1
      <3> QED
        BY <1>1, <3>1, <3>2, MergeStep
    <2>2. CASE ~Mergeable(m, n, ign)
      <3>1. ASSUME Merged(m, h) PROVE Settled(m, h)
        <4>1. n # NoHandle => Is(m, n)
          BY <1>0, <1>1, Neighbours
        <4>2. n # NoHandle => m.chunks[n].freed = 0
          BY <3>1, <4>1 DEF Merged
        <4> QED
          BY <1>1, <2>2, <4>2 DEF Mergeable, Settled
      <3>2. m1 = m
        BY <1>2, <2>2
      <3> QED
        BY <3>1, <3>2, CoarserSame
    <2> QED
      BY <2>1, <2>2
  <1>5. \/ m.chunks[h].freed > 0 /\ t = [m |-> m, h |-> h]
        \/ Mergeable(m1, p, ign) /\ t = [m |-> Merge(RemoveFreeChunkFromBin(m1, p), p, h), h |-> p]
        \/ ~Mergeable(m1, p, ign) /\ t = [m |-> m1, h |-> h]
    BY <1>1, <1>2, <1>3 DEF TryToCoalesce
  <1>6. CASE m.chunks[h].freed > 0 /\ t = [m |-> m, h |-> h]
    <2>1. ~Merged(m, h)
      BY <1>6 DEF Merged
    <2> QED
      BY <1>6, <2>1, CoarserSame
  <1>7. CASE ~Mergeable(m1, p, ign) /\ t = [m |-> m1, h |-> h]
    <2>1. ASSUME Merged(m, h) PROVE Merged(m1, NoHandle)
      <3>1. Merged(m1, h) /\ Settled(m1, h) /\ m1 \in MemType /\ Regions(m1) /\ Linked(m1) /\ h # NoHandle
        BY <1>4, <2>1, Members DEF Good, Is
      <3>2. p # NoHandle => Is(m1, p)
        BY <1>3, <1>4, <3>1, Predecessor
      <3>3. p = NoHandle \/ m1.chunks[p].used
        BY <1>7, <3>1, <3>2 DEF Mergeable, Merged
      <3>4. ASSUME NEW g, Is(m1, g), ~m1.chunks[g].used PROVE Settled(m1, g)
        <4>1. CASE g = h
          BY <3>1, <4>1
        <4>2. CASE m1.chunks[g].next = h
          <5>1. g = p
            BY <1>3, <3>1, <3>4, <4>2, Neighbours
          <5>2. g # NoHandle
            BY <3>1, <3>4, Members DEF Is
          <5> QED
            BY <3>3, <3>4, <5>1, <5>2
        <4> QED
          BY <3>1, <3>4, <4>1, <4>2 DEF Merged
      <3> QED
        BY <3>1, <3>4 DEF Merged
    <2> QED
      BY <1>4, <1>7, <2>1
  <1>8. CASE Mergeable(m1, p, ign) /\ t = [m |-> Merge(RemoveFreeChunkFromBin(m1, p), p, h), h |-> p]
    <2>1. p # NoHandle /\ ~m1.chunks[p].used
      BY <1>8 DEF Mergeable
    <2>2. m1 \in MemType /\ Linked(m1)
      BY <1>4 DEF Good
    <2>3. Is(m1, p) /\ m1.chunks[p].next = h
      BY <1>3, <1>4, <2>1, <2>2, Predecessor
    <2>4. h # NoHandle
      BY <1>4, <2>2, Members DEF Is
    <2>5. t.m = Merge(RemoveFreeChunkFromBin(m1, p), p, h) /\ t.h = p
      BY <1>8
    <2>6. /\ Good(t.m, p) /\ Is(t.m, p) /\ ~t.m.chunks[p].used
          /\ Coarser(m1, t.m) /\ t.m.timestamped = m1.timestamped
          /\ Merged(m1, h) /\ Settled(m1, h) => Merged(t.m, NoHandle)
      BY <1>4, <2>1, <2>3, <2>4, <2>5, MergeStep
    <2> QED
      BY <1>4, <2>5, <2>6, CoarserTwice
  <1> QED
    BY <1>5, <1>6, <1>7, <1>8

--------------------------------------------------------------------------------
(* MergeTimestampedChunks *)

(* A chunk that is safe needs to wait no longer. *)
LEMMA SafeStep ==
  ASSUME NEW m, Good(m, NoHandle), NEW h \in Handles(m), Safe(m, h),
         NEW w, w = [m EXCEPT !.chunks[h].freed = 0]
  PROVE  Good(w, NoHandle) /\ Coarser(m, w) /\ w.timestamped = m.timestamped
  <1>1. m \in MemType /\ Binned(m, NoHandle) /\ 0 \in Nat
    BY DEF Good
  <1>2. FreedSet(m, w, h, 0)
    BY ONLY <1>1, h \in Handles(m), w = [m EXCEPT !.chunks[h].freed = 0], PutFreed
  <1>3. /\ w \in MemType /\ SamePlaces(m, w) /\ SameRest(m, w) /\ w.timestamped = m.timestamped
        /\ Handles(w) = Handles(m) /\ \A g \in Handles(m) : SameChunk(m, w, g)
    BY <1>2 DEF FreedSet, SamePlaces
  <1>4. \A g \in Handles(m) : /\ w.chunks[g].bin = m.chunks[g].bin
                              /\ w.chunks[g].freed = IF g = h THEN 0 ELSE m.chunks[g].freed
    BY <1>2 DEF FreedSet
  <1>5. \A g : Is(w, g) <=> Is(m, g)
    BY <1>1, <1>3, PlacesKept
  <1>6. Binned(w, NoHandle)
    BY <1>1, <1>3, <1>4, <1>5 DEF Binned, SameChunk
  <1>7. Good(w, NoHandle)
    BY <1>3, <1>6, GoodAgain
  <1>8. ASSUME NEW F \in Times, Stamped(m, F) PROVE Stamped(w, F)
    <2> SUFFICES ASSUME NEW g \in Handles(m), Is(m, g), ~m.chunks[g].used, NEW a \in Addresses, Covers(m, g, a)
                 PROVE  F[a] <= w.chunks[g].freed \/ F[a] < m.frontier
      BY <1>3, <1>5 DEF Stamped, SameChunk, SameRest, Covers, Fin
    <2>1. F[a] <= m.chunks[g].freed \/ F[a] < m.frontier
      BY <1>8 DEF Stamped
    <2>2. F[a] \in Nat /\ m.frontier \in Nat /\ m.chunks[g].freed \in Nat
      BY <1>1, Members DEF Times
    <2> QED
      BY <1>4, <2>1, <2>2 DEF Safe
  <1>9. \A g \in Handles(m) : m.chunks[g].used => Is(w, g)
    BY <1>1, <1>5 DEF Binned
  <1> QED
    BY <1>3, <1>7, <1>8, <1>9 DEF Coarser, SamePlaces, SameChunk

(* timestamped_chunks_ is replaced. *)
LEMMA ListStep ==
  ASSUME NEW m, NEW hand, Good(m, hand), NEW s \in Seq(Handles(m)),
         NEW w, w = [m EXCEPT !.timestamped = s]
  PROVE  Good(w, hand) /\ Coarser(m, w) /\ w.timestamped = s
  <1>1. m \in MemType
    BY DEF Good
  <1>2. s \in Seq(Nat) /\ \A i \in 1 .. Len(s) : s[i] \in Handles(m)
    BY <1>1, Members
  <1>3. /\ w \in MemType /\ w.chunks = m.chunks /\ w.handle = m.handle /\ w.spare = m.spare /\ SameRest(m, w)
        /\ w.timestamped = s
    BY <1>1, <1>2 DEF MemType, SameRest
  <1>4. SamePlaces(m, w) /\ Handles(w) = Handles(m)
    BY <1>3 DEF SamePlaces, SameRest, SameChunk, Handles
  <1>5. \A g : Is(w, g) <=> Is(m, g)
    BY <1>1, <1>3, <1>4, PlacesKept
  <1>6. Regions(w) /\ Linked(w) /\ Tiled(w) /\ UsedBytes(w) = UsedBytes(m)
    BY <1>1, <1>3, <1>4, PlacesKept DEF Good
  <1>7. Filed(w)
    BY <1>2, <1>3, <1>4, <1>5 DEF Good, Filed
  <1>8. Binned(w, hand)
    BY <1>3, <1>4, <1>5 DEF Good, Binned
  <1>9. Counted(w)
    BY <1>3, <1>6 DEF Good, Counted, SameRest
  <1>10. Coarser(m, w)
    BY <1>3, <1>4, PlacesCoarser
  <1> QED
    BY <1>3, <1>6, <1>7, <1>8, <1>9, <1>10 DEF Good

(* The addresses at which there is no chunk in use; a merge makes none. *)
Mergeables(m) == {a \in Addresses : m.handle[a] # NoHandle => ~m.chunks[m.handle[a]].used}

(* The states of the first loop and of the second. *)
TakeStates(m) ==
  {x \in [m : MemType, to_merge : Seq(Mergeables(m)), kept : Seq(Handles(m))] :
     Good(x.m, NoHandle) /\ Coarser(m, x.m) /\ x.m.timestamped = m.timestamped}
MergeStates(m) ==
  {x \in [m : MemType, ok : BOOLEAN] : Good(x.m, NoHandle) /\ Coarser(m, x.m)}

(* One round of the first loop. *)
LEMMA TakeStep ==
  ASSUME NEW m, Good(m, NoHandle), NEW required \in Nat, NEW x \in TakeStates(m), NEW h \in Handles(m)
  PROVE  TakeOne(required, x, h) \in TakeStates(m)
  <1>1. PICK v, s, k : v = x.m /\ s = x.to_merge /\ k = x.kept
    OBVIOUS
  <1>2. /\ v \in MemType /\ s \in Seq(Mergeables(m)) /\ k \in Seq(Handles(m))
        /\ Good(v, NoHandle) /\ Coarser(m, v) /\ v.timestamped = m.timestamped
        /\ x = [m |-> v, to_merge |-> s, kept |-> k]
    BY <1>1 DEF TakeStates
  <1>3. PICK y : y = TakeOne(required, x, h)
    OBVIOUS
  <1>4. CASE ~Current(v, h)
    <2>1. y = x
      BY <1>1, <1>3, <1>4 DEF TakeOne
    <2> QED
      BY <1>3, <2>1
  <1>5. CASE Current(v, h)
    <2>1. PICK a : a = v.chunks[h].ptr
      OBVIOUS
    <2>2. h \in Handles(v) /\ Is(v, h) /\ ~v.chunks[h].used
      BY <1>2, <1>5 DEF Current, Good, Binned, Coarser
    <2>3. v.handle[a] = h /\ a \in Addresses
      BY <1>2, <2>1, <2>2, Members DEF Is
    <2>4. m.handle[a] = h /\ ~m.chunks[h].used
      <3>1. h # NoHandle
        BY <1>2, <2>2, Members
      <3> QED
        BY <1>2, <2>2, <2>3, <3>1 DEF Coarser
    <2>5. a \in Mergeables(m)
      BY <2>3, <2>4 DEF Mergeables
    <2>6. Append(s, a) \in Seq(Mergeables(m))
      BY <1>2, <2>5, AppendProperties
    <2>7. Append(k, h) \in Seq(Handles(m))
      BY <1>2, AppendProperties
    <2>8. CASE Safe(v, h)
      <3>1. PICK u : u = [v EXCEPT !.chunks[h].freed = 0]
        OBVIOUS
      <3>2. y = [m |-> u, to_merge |-> Append(s, a), kept |-> k]
        BY <1>1, <1>2, <1>3, <1>5, <2>1, <2>8, <3>1 DEF TakeOne
      <3>3. Good(u, NoHandle) /\ Coarser(v, u) /\ u.timestamped = v.timestamped
        BY ONLY <1>2, <2>2, <2>8, <3>1, SafeStep
      <3>4. Coarser(m, u) /\ u \in MemType
        BY <1>2, <3>3, CoarserTwice DEF Good
      <3> QED
        BY ONLY SMTT(30), <1>2, <1>3, <2>6, <3>2, <3>3, <3>4 DEF TakeStates
    <2>9. CASE ~Safe(v, h) /\ required > 0
      <3>1. y = [m |-> v, to_merge |-> Append(s, a), kept |-> k]
        BY <1>1, <1>2, <1>3, <1>5, <2>1, <2>9 DEF TakeOne
      <3> QED
        BY <1>2, <1>3, <2>6, <3>1 DEF TakeStates
    <2>10. CASE ~Safe(v, h) /\ ~(required > 0)
      <3>1. y = [m |-> v, to_merge |-> s, kept |-> Append(k, h)]
        BY <1>1, <1>2, <1>3, <1>5, <2>1, <2>3, <2>10 DEF TakeOne
      <3> QED
        BY SMTT(30), <1>2, <1>3, <2>7, <3>1 DEF TakeStates
    <2> QED
      BY <2>8, <2>9, <2>10
  <1> QED
    BY <1>4, <1>5

(* The first loop. *)
LEMMA TakeApartStep ==
  ASSUME NEW m, Good(m, NoHandle), NEW required \in Nat, NEW y, y = TakeApart(m, required)
  PROVE  /\ y \in TakeStates(m)
         /\ m.timestamped = <<>> => y.m = m /\ y.to_merge = <<>> /\ y.kept = <<>>
  <1>1. PICK n, ts, b : n = Len(m.timestamped) /\ ts = m.timestamped /\ b = [m |-> m, to_merge |-> <<>>, kept |-> <<>>]
    OBVIOUS
  <1>2. n \in Nat /\ \A k \in 1 .. n : ts[k] \in Handles(m)
    BY <1>1, Members DEF Good, Filed
  <1>3. b \in TakeStates(m)
    BY <1>1, CoarserSame DEF TakeStates, Good
  <1> DEFINE Def(f) == f = [k \in 0 .. n |-> IF k = 0 THEN b ELSE TakeOne(required, f[k - 1], ts[k])]
             X == CHOOSE f : Def(f)
  <1>4. PICK T : T = TakeStates(m)
    OBVIOUS
  <1>5. PICK step : step = [z \in T \X (1 .. n) |-> TakeOne(required, z[1], ts[z[2]])]
    OBVIOUS
  <1>6. \A x \in T, k \in 1 .. n : TakeOne(required, x, ts[k]) \in T
    BY <1>2, <1>4, TakeStep
  <1>7. /\ step \in [T \X (1 .. n) -> T]
        /\ \A x \in T, k \in 1 .. n : step[<<x, k>>] = TakeOne(required, x, ts[k])
    BY <1>5, <1>6
  <1>8. PICK f \in [0 .. n -> T] : RunOf(f, b, n, step)
    <2>1. n \in Nat /\ b \in T /\ step \in [T \X (1 .. n) -> T]
      BY <1>2, <1>3, <1>4, <1>7
    <2> QED
      BY ONLY <2>1, Iteration
  <1>9. Def(f)
    <2>1. ASSUME NEW i \in 1 .. n PROVE f[i] = TakeOne(required, f[i - 1], ts[i])
      <3>1. i - 1 \in 0 .. n
        BY <1>2
      <3>2. f[i - 1] \in T
        BY <3>1, <1>8
      <3> QED
        BY <1>7, <1>8, <3>2 DEF RunOf
    <2>2. ASSUME NEW i \in 0 .. n PROVE f[i] = IF i = 0 THEN b ELSE TakeOne(required, f[i - 1], ts[i])
      BY <1>2, <1>8, <2>1 DEF RunOf
    <2> QED
      BY <1>8, <2>2
  <1>10. Def(X)
    BY <1>9
  <1>11. y = X[n]
    BY <1>1 DEF TakeApart
  <1> HIDE DEF X
  <1>12. X[0] = b
    BY <1>2, <1>10
  <1>13. \A i \in 1 .. n : X[i] = TakeOne(required, X[i - 1], ts[i])
    BY <1>2, <1>10
  <1> HIDE DEF Def
  <1>14. X[n] \in T
    <2>1. PICK S : S = {i \in 0 .. n : X[i] \in T}
      OBVIOUS
    <2>2. 0 \in S
      BY <1>2, <1>3, <1>4, <1>12, <2>1
    <2>3. \A i \in 1 .. n : i - 1 \in S => i \in S
      BY <1>2, <1>6, <1>13, <2>1
    <2>4. n \in S
      BY <1>2, <2>2, <2>3, UpTo
    <2> QED
      BY <2>1, <2>4
  <1>15. m.timestamped = <<>> => y = b
    BY <1>1, <1>11, <1>12
  <1> QED
    BY <1>1, <1>4, <1>11, <1>14, <1>15

(* One round of the second. *)
LEMMA MergeOneStep ==
  ASSUME NEW m, Good(m, NoHandle), NEW required \in Nat, NEW x \in MergeStates(m), NEW ptr \in Mergeables(m)
  PROVE  MergeOne(required, x, ptr) \in MergeStates(m)
  <1>1. PICK v, h : v = x.m /\ h = x.m.handle[ptr]
    OBVIOUS
  <1>2. /\ v \in MemType /\ x.ok \in BOOLEAN /\ Good(v, NoHandle) /\ Coarser(m, v)
        /\ x = [m |-> v, ok |-> x.ok]
    BY <1>1 DEF MergeStates
  <1>3. PICK u, t, m1, c : /\ u = RemoveFreeChunkFromBin(v, h) /\ t = TryToCoalesce(u, h, required > 0)
                           /\ m1 = InsertFreeChunkIntoBin(t.m, t.h) /\ c = m1.chunks[t.h]
    OBVIOUS
  <1>4. PICK y : y = MergeOne(required, x, ptr)
    OBVIOUS
  <1>5. CASE h = NoHandle
    BY <1>1, <1>5 DEF MergeOne
  <1>6. CASE h # NoHandle
    <2>1. ptr \in Addresses /\ h \in Handles(v) /\ v.chunks[h].ptr = ptr
      BY <1>1, <1>2, <1>6 DEF Good, Filed, Mergeables
    <2>2. Is(v, h)
      BY <1>1, <2>1 DEF Is
    <2>3. ~v.chunks[h].used /\ Handles(v) = Handles(m)
      BY <1>1, <1>2, <1>6, <2>1 DEF Coarser, Mergeables
    <2>4. Good(u, h) /\ Is(u, h) /\ ~u.chunks[h].used /\ Coarser(v, u)
      BY <1>2, <1>3, <2>2, <2>3, RemoveStep DEF OutOfBin
    <2>5. (required > 0) \in BOOLEAN
      OBVIOUS
    <2>6. Good(t.m, t.h) /\ Is(t.m, t.h) /\ ~t.m.chunks[t.h].used /\ Coarser(u, t.m)
      BY <1>3, <2>4, <2>5, CoalesceStep
    <2>7. Good(m1, NoHandle) /\ Is(m1, t.h) /\ Coarser(t.m, m1)
      BY <1>3, <2>6, InsertStep DEF IntoBin
    <2>8. Coarser(m, m1)
      BY <1>2, <2>4, <2>6, <2>7, CoarserTwice
    <2>9. Handles(m1) = Handles(m) /\ m1 \in MemType /\ t.h \in Handles(m)
      BY <2>7, <2>8 DEF Coarser, Good, Is
    <2>10. CASE required = 0
      <3>1. y = [m |-> m1, ok |-> x.ok]
        BY <1>1, <1>2, <1>3, <1>4, <1>6, <2>10 DEF MergeOne
      <3> QED
        BY <1>2, <1>4, <2>7, <2>8, <2>9, <3>1 DEF MergeStates
    <2>11. CASE required # 0 /\ x.ok
      <3>1. PICK s, w : s = Append(v.timestamped, h) /\ w = [v EXCEPT !.timestamped = s]
        OBVIOUS
      <3>2. y = [m |-> w, ok |-> x.ok]
        BY <1>1, <1>2, <1>4, <1>6, <2>11, <3>1 DEF MergeOne
      <3>3. v.timestamped \in Seq(Handles(v))
        <4>1. v.timestamped \in Seq(Nat) /\ \A i \in 1 .. Len(v.timestamped) : v.timestamped[i] \in Handles(v)
          BY <1>2, Members DEF Good, Filed
        <4> QED
          BY <4>1, SeqDef
      <3>4. s \in Seq(Handles(v))
        BY <2>1, <3>1, <3>3, AppendProperties
      <3>5. Good(w, NoHandle) /\ Coarser(v, w)
        BY <1>2, <3>1, <3>4, ListStep
      <3>6. Coarser(m, w) /\ w \in MemType
        BY <1>2, <3>5, CoarserTwice DEF Good
      <3> QED
        BY ONLY <1>2, <1>4, <3>2, <3>5, <3>6 DEF MergeStates
    <2>12. CASE required # 0 /\ ~x.ok
      <3>1. PICK s, w : s = Append(m1.timestamped, t.h) /\ w = [m1 EXCEPT !.timestamped = s]
        OBVIOUS
      <3>2. y = [m |-> IF t.h # h /\ c.freed > 0 THEN w ELSE m1, ok |-> c.size >= required]
        BY <1>1, <1>2, <1>3, <1>4, <1>6, <2>12, <3>1 DEF MergeOne
      <3>3. m1.timestamped \in Seq(Handles(m1))
        <4>1. m1.timestamped \in Seq(Nat) /\ \A i \in 1 .. Len(m1.timestamped) : m1.timestamped[i] \in Handles(m1)
          BY <2>7, <2>9, Members DEF Good, Filed
        <4> QED
          BY <4>1, SeqDef
      <3>4. s \in Seq(Handles(m1))
        BY <2>9, <3>1, <3>3, AppendProperties
      <3>5. Good(w, NoHandle) /\ Coarser(m1, w)
        BY <2>7, <3>1, <3>4, ListStep
      <3>6. Coarser(m, w) /\ w \in MemType
        BY <2>8, <3>5, CoarserTwice DEF Good
      <3>7. (c.size >= required) \in BOOLEAN
        OBVIOUS
      <3> QED
        BY ONLY <1>4, <2>7, <2>8, <2>9, <3>2, <3>5, <3>6, <3>7 DEF MergeStates
    <2> QED
      BY <2>10, <2>11, <2>12
  <1> QED
    BY <1>5, <1>6

(* The second loop. *)
LEMMA MergeAllStep ==
  ASSUME NEW m, Good(m, NoHandle), NEW required \in Nat, NEW s \in Seq(Mergeables(m)),
         NEW y, y = MergeAll(m, required, s)
  PROVE  y \in MergeStates(m) /\ (s = <<>> => y.m = m)
  <1>1. PICK n, b : n = Len(s) /\ b = [m |-> m, ok |-> required = 0]
    OBVIOUS
  <1>2. n \in Nat /\ \A k \in 1 .. n : s[k] \in Mergeables(m)
    BY <1>1
  <1>3. b \in MergeStates(m)
    BY <1>1, CoarserSame DEF MergeStates, Good
  <1> DEFINE Def(f) == f = [k \in 0 .. n |-> IF k = 0 THEN b ELSE MergeOne(required, f[k - 1], s[k])]
             X == CHOOSE f : Def(f)
  <1>4. PICK T : T = MergeStates(m)
    OBVIOUS
  <1>5. PICK step : step = [z \in T \X (1 .. n) |-> MergeOne(required, z[1], s[z[2]])]
    OBVIOUS
  <1>6. \A x \in T, k \in 1 .. n : MergeOne(required, x, s[k]) \in T
    BY <1>2, <1>4, MergeOneStep
  <1>7. /\ step \in [T \X (1 .. n) -> T]
        /\ \A x \in T, k \in 1 .. n : step[<<x, k>>] = MergeOne(required, x, s[k])
    BY <1>5, <1>6
  <1>8. PICK f \in [0 .. n -> T] : RunOf(f, b, n, step)
    <2>1. n \in Nat /\ b \in T /\ step \in [T \X (1 .. n) -> T]
      BY <1>2, <1>3, <1>4, <1>7
    <2> QED
      BY ONLY <2>1, Iteration
  <1>9. Def(f)
    <2>1. ASSUME NEW i \in 1 .. n PROVE f[i] = MergeOne(required, f[i - 1], s[i])
      <3>1. i - 1 \in 0 .. n
        BY <1>2
      <3>2. f[i - 1] \in T
        BY <3>1, <1>8
      <3> QED
        BY <1>7, <1>8, <3>2 DEF RunOf
    <2>2. ASSUME NEW i \in 0 .. n PROVE f[i] = IF i = 0 THEN b ELSE MergeOne(required, f[i - 1], s[i])
      BY <1>2, <1>8, <2>1 DEF RunOf
    <2> QED
      BY <1>8, <2>2
  <1>10. Def(X)
    BY <1>9
  <1>11. y = X[n]
    BY <1>1 DEF MergeAll
  <1> HIDE DEF X
  <1>12. X[0] = b
    BY <1>2, <1>10
  <1>13. \A i \in 1 .. n : X[i] = MergeOne(required, X[i - 1], s[i])
    BY <1>2, <1>10
  <1> HIDE DEF Def
  <1>14. X[n] \in T
    <2>1. PICK S : S = {i \in 0 .. n : X[i] \in T}
      OBVIOUS
    <2>2. 0 \in S
      BY <1>2, <1>3, <1>4, <1>12, <2>1
    <2>3. \A i \in 1 .. n : i - 1 \in S => i \in S
      BY <1>2, <1>6, <1>13, <2>1
    <2>4. n \in S
      BY <1>2, <2>2, <2>3, UpTo
    <2> QED
      BY <2>1, <2>4
  <1>15. s = <<>> => y = b
    BY <1>1, <1>11, <1>12
  <1> QED
    BY <1>1, <1>4, <1>11, <1>14, <1>15

(* MergeTimestampedChunks merges free chunks and does nothing else to chunks. *)
LEMMA TimestampedStep ==
  ASSUME NEW m, Good(m, NoHandle), NEW required \in Nat, NEW y, y = MergeTimestampedChunks(m, required)
  PROVE  /\ Good(y.m, NoHandle) /\ Coarser(m, y.m) /\ y.ok \in BOOLEAN
         /\ m.timestamped = <<>> => y.m = m
  <1>1. PICK x : x = TakeApart(m, required)
    OBVIOUS
  <1>2. x \in TakeStates(m) /\ (m.timestamped = <<>> => x.m = m /\ x.to_merge = <<>> /\ x.kept = <<>>)
    BY <1>1, TakeApartStep
  <1>3. PICK v, s, k : v = x.m /\ s = x.to_merge /\ k = x.kept
    OBVIOUS
  <1>4. /\ v \in MemType /\ s \in Seq(Mergeables(m)) /\ k \in Seq(Handles(m))
        /\ Good(v, NoHandle) /\ Coarser(m, v)
    BY <1>2, <1>3 DEF TakeStates
  <1>5. PICK w : w = [v EXCEPT !.timestamped = k]
    OBVIOUS
  <1>6. k \in Seq(Handles(v))
    BY <1>4 DEF Coarser
  <1>7. Good(w, NoHandle) /\ Coarser(v, w) /\ w.timestamped = k
    BY <1>4, <1>5, <1>6, ListStep
  <1>8. Coarser(m, w)
    BY <1>4, <1>7, CoarserTwice
  <1>9. Mergeables(m) \subseteq Mergeables(w)
    <2>1. ASSUME NEW a \in Mergeables(m), w.handle[a] # NoHandle
          PROVE  ~w.chunks[w.handle[a]].used
      <3>1. a \in Addresses /\ w.handle[a] = m.handle[a]
        BY <1>8, <2>1 DEF Coarser, Mergeables
      <3>2. m.handle[a] \in Handles(m) /\ ~m.chunks[m.handle[a]].used
        BY <2>1, <3>1 DEF Good, Filed, Mergeables
      <3> QED
        BY <1>8, <3>1, <3>2 DEF Coarser
    <2> QED
      BY <2>1 DEF Mergeables
  <1>10. s \in Seq(Mergeables(w))
    BY <1>4, <1>9
  <1>11. y = MergeAll(w, required, s)
    BY <1>1, <1>3, <1>5 DEF MergeTimestampedChunks
  <1>12. y \in MergeStates(w) /\ (s = <<>> => y.m = w)
    BY <1>7, <1>10, <1>11, MergeAllStep
  <1>13. Good(y.m, NoHandle) /\ Coarser(w, y.m) /\ y.ok \in BOOLEAN
    BY <1>12 DEF MergeStates
  <1>14. m.timestamped = <<>> => y.m = m
    <2>1. m.timestamped = <<>> => w = [m EXCEPT !.timestamped = m.timestamped] /\ s = <<>>
      BY <1>2, <1>3, <1>5
    <2>2. m \in MemType
      BY DEF Good
    <2>3. m = [m EXCEPT !.timestamped = m.timestamped]
      BY <2>2 DEF MemType
    <2> QED
      BY <1>12, <2>1, <2>3
  <1> QED
    BY <1>8, <1>13, <1>14, CoarserTwice

--------------------------------------------------------------------------------
(* New chunks *)

(* AllocateChunk: c goes under the handle k. *)
AllocatedTo(m, w, k, c) ==
  /\ w \in MemType /\ SameRest(m, w) /\ w.timestamped = m.timestamped
  /\ k \in Nat \ {0} /\ Handles(w) = Handles(m) \cup {k}
  /\ \A a \in Addresses : w.handle[a] = IF a = c.ptr THEN k ELSE m.handle[a]
  /\ w.chunks[k] = c /\ \A g \in Handles(m) : g # k => w.chunks[g] = m.chunks[g]
  /\ \/ k \notin Handles(m) /\ Len(m.spare) = 0 /\ Len(w.spare) = 0
     \/ /\ k \in Handles(m) /\ Len(m.spare) > 0 /\ k = m.spare[1]
        /\ Len(w.spare) = Len(m.spare) - 1
        /\ \A i \in 1 .. Len(w.spare) : w.spare[i] = m.spare[i + 1]

(* The new chunk takes a spare handle, or one more. *)
LEMMA AllocateFacts ==
  ASSUME NEW m \in MemType, Filed(m), NEW c \in ChunkType, NEW w, w = AllocateChunk(m, c)
  PROVE  AllocatedTo(m, w, NextHandle(m), c)
  <1>1. PICK k : k = NextHandle(m)
    OBVIOUS
  <1>2. /\ m.chunks \in Seq(ChunkType) /\ m.spare \in Seq(Nat) /\ Len(m.chunks) \in Nat /\ Len(m.spare) \in Nat
        /\ m.handle \in [Addresses -> Nat] /\ c.ptr \in Addresses
    BY Members DEF ChunkType
  <1>3. PICK q : q = [m.handle EXCEPT ![c.ptr] = k]
    OBVIOUS
  <1>4. ASSUME k \in Nat
        PROVE  q \in [Addresses -> Nat] /\ \A a \in Addresses : q[a] = IF a = c.ptr THEN k ELSE m.handle[a]
    BY <1>2, <1>3, <1>4
  <1>5. CASE m.spare = <<>>
    <2>1. k = Len(m.chunks) + 1 /\ Len(m.spare) = 0
      BY <1>1, <1>5 DEF NextHandle
    <2>2. PICK s : s = Append(m.chunks, c)
      OBVIOUS
    <2>3. /\ s \in Seq(ChunkType) /\ Len(s) = Len(m.chunks) + 1 /\ s[Len(m.chunks) + 1] = c
          /\ \A i \in 1 .. Len(m.chunks) : s[i] = m.chunks[i]
      BY <1>2, <2>2, AppendProperties
    <2>4. w = [m EXCEPT !.chunks = s, !.handle = q]
      BY <1>1, <1>3, <1>5, <2>2 DEF AllocateChunk, MemType
    <2>5. /\ w \in MemType /\ w.chunks = s /\ w.handle = q /\ w.spare = m.spare
          /\ SameRest(m, w) /\ w.timestamped = m.timestamped
      <3>1. s \in Seq(ChunkType) /\ q \in [Addresses -> Nat]
        BY <1>2, <1>4, <2>1, <2>3
      <3> QED
        BY ONLY <2>4, <3>1, m \in MemType DEF MemType, SameRest
    <2>6. k \in Nat \ {0} /\ k \notin Handles(m) /\ Handles(w) = Handles(m) \cup {k}
      BY <1>2, <2>1, <2>3, <2>5 DEF Handles
    <2>7. w.chunks[k] = c /\ \A g \in Handles(m) : g # k => w.chunks[g] = m.chunks[g]
      BY <2>1, <2>3, <2>5 DEF Handles
    <2>8. \A a \in Addresses : w.handle[a] = IF a = c.ptr THEN k ELSE m.handle[a]
      BY <1>4, <2>5, <2>6
    <2> QED
      BY <1>1, <2>1, <2>5, <2>6, <2>7, <2>8 DEF AllocatedTo
  <1>6. CASE m.spare # <<>>
    <2>1. k = Head(m.spare) /\ Len(m.spare) > 0 /\ k = m.spare[1]
      BY <1>1, <1>2, <1>6 DEF NextHandle
    <2>2. k \in Handles(m) /\ k \in Nat \ {0} /\ k \in 1 .. Len(m.chunks)
      <3>1. 1 \in 1 .. Len(m.spare)
        BY <1>2, <2>1
      <3> QED
        BY <1>2, <2>1, <3>1 DEF Filed, Handles
    <2>3. PICK s : s = [m.chunks EXCEPT ![k] = c]
      OBVIOUS
    <2>4. /\ s \in Seq(ChunkType) /\ Len(s) = Len(m.chunks)
          /\ \A j \in 1 .. Len(m.chunks) : s[j] = IF j = k THEN c ELSE m.chunks[j]
      BY <1>2, <2>2, <2>3, ExceptSeq
    <2>5. PICK p : p = Tail(m.spare)
      OBVIOUS
    <2>6. /\ p \in Seq(Nat) /\ Len(p) = Len(m.spare) - 1
          /\ \A i \in 1 .. Len(p) : p[i] = m.spare[i + 1]
      BY <1>2, <1>6, <2>5, HeadTailProperties
    <2>7. w = [m EXCEPT !.chunks = s, !.spare = p, !.handle = q]
      BY <1>1, <1>3, <1>6, <2>1, <2>3, <2>5 DEF AllocateChunk, MemType
    <2>8. /\ w \in MemType /\ w.chunks = s /\ w.handle = q /\ w.spare = p
          /\ SameRest(m, w) /\ w.timestamped = m.timestamped
      BY ZenonT(30), <1>2, <1>4, <2>2, <2>4, <2>6, <2>7 DEF MemType, SameRest
    <2>9. Handles(w) = Handles(m) \cup {k}
      BY <2>2, <2>4, <2>8 DEF Handles
    <2>10. w.chunks[k] = c /\ \A g \in Handles(m) : g # k => w.chunks[g] = m.chunks[g]
      BY <2>2, <2>4, <2>8 DEF Handles
    <2>11. \A a \in Addresses : w.handle[a] = IF a = c.ptr THEN k ELSE m.handle[a]
      BY <1>4, <2>2, <2>8
    <2> QED
      BY <1>1, <2>1, <2>2, <2>6, <2>8, <2>9, <2>10, <2>11 DEF AllocatedTo
  <1> QED
    BY <1>5, <1>6

(* The handle was nobody's, and the rest of the spare ones still are. *)
LEMMA AllocateFiled ==
  ASSUME NEW m \in MemType, Filed(m), NEW c \in ChunkType, NEW w, NEW k, AllocatedTo(m, w, k, c)
  PROVE  /\ ~Is(m, k) /\ k # NoHandle
         /\ \A i \in 1 .. Len(w.spare) : w.spare[i] \in Handles(m) /\ ~Is(m, w.spare[i]) /\ w.spare[i] # k
         /\ \A i, j \in 1 .. Len(w.spare) : w.spare[i] = w.spare[j] => i = j
         /\ \A i \in 1 .. Len(w.timestamped) : w.timestamped[i] \in Handles(m)
  <1>1. Len(m.spare) \in Nat
    BY Members
  <1>2. k # NoHandle
    BY DEF AllocatedTo, NoHandle
  <1>3. \A i \in 1 .. Len(w.timestamped) : w.timestamped[i] \in Handles(m)
    BY DEF AllocatedTo, Filed
  <1>4. CASE k \notin Handles(m)
    <2>1. ~Is(m, k) /\ Len(w.spare) = 0
      BY <1>4 DEF Is, AllocatedTo
    <2> QED
      BY <1>2, <1>3, <2>1
  <1>5. CASE k \in Handles(m)
    <2>1. /\ Len(m.spare) > 0 /\ k = m.spare[1] /\ Len(w.spare) = Len(m.spare) - 1
          /\ \A i \in 1 .. Len(w.spare) : w.spare[i] = m.spare[i + 1]
      BY <1>5 DEF AllocatedTo
    <2>2. ~Is(m, k)
      BY <1>1, <2>1 DEF Filed
    <2>3. ASSUME NEW i \in 1 .. Len(w.spare)
          PROVE  i + 1 \in 1 .. Len(m.spare) /\ 1 \in 1 .. Len(m.spare) /\ i + 1 # 1 /\ w.spare[i] = m.spare[i + 1]
      BY <1>1, <2>1
    <2>4. ASSUME NEW i \in 1 .. Len(w.spare)
          PROVE  w.spare[i] \in Handles(m) /\ ~Is(m, w.spare[i]) /\ w.spare[i] # k
      BY <2>1, <2>3 DEF Filed
    <2>5. ASSUME NEW i \in 1 .. Len(w.spare), NEW j \in 1 .. Len(w.spare), w.spare[i] = w.spare[j]
          PROVE  i = j
      <3>1. PICK a, b : a = i + 1 /\ b = j + 1
        OBVIOUS
      <3>2. a \in 1 .. Len(m.spare) /\ b \in 1 .. Len(m.spare) /\ m.spare[a] = m.spare[b]
        BY <2>3, <2>5, <3>1
      <3>3. a = b
        BY <3>2 DEF Filed
      <3> QED
        BY <3>1, <3>3
    <2> QED
      BY <1>2, <1>3, <2>2, <2>4, <2>5
  <1> QED
    BY <1>4, <1>5

(* SplitChunk: n bytes stay with h, the others become the chunk k. *)
SplitChunkTo(m, w, h, k, n, g) ==
  /\ w.chunks[g].ptr = m.chunks[g].ptr
  /\ w.chunks[g].size = IF g = h THEN n ELSE m.chunks[g].size
  /\ w.chunks[g].next = IF g = h THEN k ELSE m.chunks[g].next
  /\ w.chunks[g].prev = IF g = m.chunks[h].next THEN k ELSE m.chunks[g].prev
  /\ w.chunks[g].used = m.chunks[g].used /\ w.chunks[g].bin = m.chunks[g].bin
  /\ w.chunks[g].freed = m.chunks[g].freed

RestChunk(m, w, h, k, n) ==
  /\ w.chunks[k].ptr = m.chunks[h].ptr + n /\ w.chunks[k].size = m.chunks[h].size - n
  /\ w.chunks[k].prev = h /\ w.chunks[k].next = m.chunks[h].next
  /\ w.chunks[k].used = FALSE /\ w.chunks[k].bin = BinNumForSize(m.chunks[h].size - n)
  /\ w.chunks[k].freed = m.chunks[h].freed

SplitTo(m, w, h, k, n) ==
  /\ w \in MemType /\ SameRest(m, w) /\ w.timestamped = m.timestamped
  /\ Handles(w) = Handles(m) \cup {k} /\ k # NoHandle /\ ~Is(m, k)
  /\ \A a \in Addresses : w.handle[a] = IF a = m.chunks[h].ptr + n THEN k ELSE m.handle[a]
  /\ \A g \in Handles(m) : g # k => SplitChunkTo(m, w, h, k, n, g)
  /\ RestChunk(m, w, h, k, n)
  /\ \A i \in 1 .. Len(w.spare) : w.spare[i] \in Handles(m) /\ ~Is(m, w.spare[i]) /\ w.spare[i] # k
  /\ \A i, j \in 1 .. Len(w.spare) : w.spare[i] = w.spare[j] => i = j
  /\ \A i \in 1 .. Len(w.timestamped) : w.timestamped[i] \in Handles(m)

(* What SplitChunk does to the members. *)
LEMMA SplitFacts ==
  ASSUME NEW m \in MemType, Filed(m), NEW h, Is(m, h), NEW n \in Nat, n > 0, n < m.chunks[h].size,
         m.chunks[h].ptr + n \in Addresses,
         m.chunks[h].next # NoHandle => Is(m, m.chunks[h].next) /\ m.chunks[h].next # h,
         NEW w, w = SplitChunk(m, h, n)
  PROVE  SplitTo(m, w, h, NextHandle(m), n)
  <1>1. PICK k, x : k = NextHandle(m) /\ x = m.chunks[h].next
    OBVIOUS
  <1>2. /\ h \in Handles(m) /\ m.chunks[h] \in ChunkType /\ h \in Nat /\ x \in Nat
        /\ m.chunks[h].ptr \in Int /\ m.chunks[h].size \in Nat /\ m.chunks[h].freed \in Nat /\ NoBin \in Int
    BY <1>1, Members DEF Is, NoBin
  <1>3. PICK c : c = [ptr |-> m.chunks[h].ptr + n, size |-> m.chunks[h].size - n, used |-> FALSE, prev |-> h,
                      next |-> x, bin |-> NoBin, freed |-> m.chunks[h].freed]
    OBVIOUS
  <1>4. c \in ChunkType
    BY <1>2, <1>3 DEF ChunkType
  <1>5. /\ c.ptr = m.chunks[h].ptr + n /\ c.size = m.chunks[h].size - n /\ c.used = FALSE /\ c.prev = h
        /\ c.next = x /\ c.bin = NoBin /\ c.freed = m.chunks[h].freed
    BY <1>3
  <1>6. PICK m1 : m1 = AllocateChunk(m, c)
    OBVIOUS
  <1>7. AllocatedTo(m, m1, k, c)
    BY <1>1, <1>4, <1>6, AllocateFacts
  <1>8. /\ ~Is(m, k) /\ k # NoHandle
        /\ \A i \in 1 .. Len(m1.spare) : m1.spare[i] \in Handles(m) /\ ~Is(m, m1.spare[i]) /\ m1.spare[i] # k
        /\ \A i, j \in 1 .. Len(m1.spare) : m1.spare[i] = m1.spare[j] => i = j
        /\ \A i \in 1 .. Len(m1.timestamped) : m1.timestamped[i] \in Handles(m)
    BY <1>4, <1>7, AllocateFiled
  <1>9. /\ m1 \in MemType /\ SameRest(m, m1) /\ m1.timestamped = m.timestamped
        /\ k \in Nat /\ Handles(m1) = Handles(m) \cup {k}
        /\ \A a \in Addresses : m1.handle[a] = IF a = c.ptr THEN k ELSE m.handle[a]
        /\ m1.chunks[k] = c /\ \A g \in Handles(m) : g # k => m1.chunks[g] = m.chunks[g]
    BY <1>7 DEF AllocatedTo
  <1>10. h # k /\ x # k /\ x # h /\ h \in Handles(m1) /\ m1.chunks[h] = m.chunks[h]
         /\ x \in Handles(m1) \cup {NoHandle}
    <2>1. h # k
      BY <1>8
    <2>2. x # k /\ x # h /\ x \in Handles(m) \cup {NoHandle}
      <3>1. CASE x = NoHandle
        <4>1. h # NoHandle
          BY <1>2 DEF Handles, NoHandle
        <4> QED
          BY <1>8, <3>1, <4>1
      <3>2. CASE x # NoHandle
        <4>1. Is(m, x) /\ x # h
          BY <1>1, <3>2
        <4>2. x \in Handles(m)
          BY <4>1 DEF Is
        <4> QED
          BY <1>8, <4>1, <4>2
      <3> QED
        BY <3>1, <3>2
    <2> QED
      BY <1>2, <1>9, <2>1, <2>2
  <1>11. PICK d : d = [m.chunks[h] EXCEPT !.size = n, !.next = k]
    OBVIOUS
  <1>12. /\ d \in ChunkType /\ d.size = n /\ d.next = k
         /\ d.ptr = m.chunks[h].ptr /\ d.prev = m.chunks[h].prev /\ d.used = m.chunks[h].used
         /\ d.bin = m.chunks[h].bin /\ d.freed = m.chunks[h].freed
    BY <1>2, <1>9, <1>11 DEF ChunkType
  <1>13. PICK m2 : m2 = Put(m1, h, d)
    OBVIOUS
  <1>14. PutTo(m1, m2, h, d)
    <2>1. m1 \in MemType /\ h \in Handles(m1) /\ d \in ChunkType
      BY <1>9, <1>10, <1>12
    <2> QED
      BY ONLY <1>13, <2>1, PutChunk
  <1>15. PICK m3 : m3 = SetPrev(m2, x, k)
    OBVIOUS
  <1>16. PrevSet(m2, m3, x, k)
    <2>1. m2 \in MemType /\ x \in Handles(m2) \cup {NoHandle} /\ k \in Nat
      BY <1>9, <1>10, <1>14 DEF PutTo
    <2> QED
      BY ONLY <1>15, <2>1, PutPrev
  <1>17. PICK b : b = BinNumForSize(m3.chunks[k].size)
    OBVIOUS
  <1>18. /\ m3 \in MemType /\ k \in Handles(m3) /\ Handles(m3) = Handles(m) \cup {k}
         /\ m3.chunks[k].size = c.size /\ b = BinNumForSize(c.size) /\ b \in Int
    <2>1. m3 \in MemType /\ Handles(m3) = Handles(m1) /\ k \in Handles(m1)
      BY <1>9, <1>14, <1>16 DEF PutTo, PrevSet
    <2>2. m2.chunks[k] = c
      BY <1>9, <1>10, <1>14, <2>1 DEF PutTo
    <2>3. m3.chunks[k].size = c.size
      BY <1>14, <1>16, <2>1, <2>2 DEF PutTo, PrevSet
    <2>4. c.size \in Nat
      BY <1>4 DEF ChunkType
    <2> QED
      BY <1>9, <1>17, <2>1, <2>3, <2>4, BinFacts
  <1>19. w = [m3 EXCEPT !.chunks[k].bin = b]
    <2>1. [m1 EXCEPT !.chunks[h] = [m1.chunks[h] EXCEPT !.size = n, !.next = k]] = m2
      BY <1>10, <1>11, <1>13 DEF Put
    <2>2. SplitChunk(m, h, n) = InsertFreeChunkIntoBin(SetPrev(
            [m1 EXCEPT !.chunks[h] = [m1.chunks[h] EXCEPT !.size = n, !.next = k]], x, k), k)
      BY <1>1, <1>3, <1>6 DEF SplitChunk, InheritFreedAt
    <2>3. w = InsertFreeChunkIntoBin(m3, k)
      BY <1>15, <2>1, <2>2, Zenon
    <2> QED
      BY <1>17, <2>3 DEF InsertFreeChunkIntoBin
  <1>20. BinSet(m3, w, k, b)
    BY ONLY <1>18, <1>19, PutBin
  <1>21. /\ w \in MemType /\ Handles(w) = Handles(m) \cup {k}
         /\ w.handle = m1.handle /\ w.spare = m1.spare /\ w.timestamped = m1.timestamped /\ SameRest(m1, w)
    BY <1>14, <1>16, <1>18, <1>20 DEF BinSet, PrevSet, PutTo, SamePlaces, SameRest
  <1>22. ASSUME NEW g \in Handles(m) \cup {k}
         PROVE  /\ SameChunk(m3, w, g) /\ w.chunks[g].freed = m3.chunks[g].freed
                /\ w.chunks[g].bin = IF g = k THEN b ELSE m3.chunks[g].bin
                /\ m3.chunks[g].ptr = m2.chunks[g].ptr /\ m3.chunks[g].size = m2.chunks[g].size
                /\ m3.chunks[g].prev = IF g = x THEN k ELSE m2.chunks[g].prev
                /\ m3.chunks[g].next = m2.chunks[g].next /\ m3.chunks[g].used = m2.chunks[g].used
                /\ m3.chunks[g].bin = m2.chunks[g].bin /\ m3.chunks[g].freed = m2.chunks[g].freed
                /\ m2.chunks[g] = IF g = h THEN d ELSE m1.chunks[g]
    <2>1. g \in Handles(m3) /\ g \in Handles(m2) /\ g \in Handles(m1)
      BY <1>9, <1>14, <1>18 DEF PutTo
    <2> QED
      BY <1>14, <1>16, <1>20, <2>1 DEF BinSet, PrevSet, PutTo, SamePlaces
  <1>23. ASSUME NEW g \in Handles(m), g # k
         PROVE  SplitChunkTo(m, w, h, k, n, g)
    <2>1. m1.chunks[g] = m.chunks[g]
      BY <1>9, <1>23
    <2>2. CASE g = h
      BY <1>1, <1>10, <1>12, <1>22, <1>23, <2>2 DEF SameChunk, SplitChunkTo
    <2>3. CASE g # h
      BY <1>1, <1>22, <1>23, <2>1, <2>3 DEF SameChunk, SplitChunkTo
    <2> QED
      BY <2>2, <2>3
  <1>24. RestChunk(m, w, h, k, n)
    BY <1>1, <1>5, <1>9, <1>10, <1>18, <1>22 DEF SameChunk, RestChunk
  <1>25. \A a \in Addresses : w.handle[a] = IF a = m.chunks[h].ptr + n THEN k ELSE m.handle[a]
    BY <1>5, <1>9, <1>21
  <1>26. SameRest(m, w) /\ w.timestamped = m.timestamped
    BY <1>9, <1>21 DEF SameRest
  <1> QED
    BY <1>1, <1>8, <1>21, <1>23, <1>24, <1>25, <1>26 DEF SplitTo

(* A chunk ends within its region. *)
LEMMA ChunkInRegion ==
  ASSUME NEW m \in MemType, Regions(m), Linked(m), NEW h, Is(m, h)
  PROVE  /\ h \in Handles(m) /\ m.chunks[h].ptr \in Addresses /\ m.chunks[h].ptr \in Int
         /\ m.chunks[h].size \in Nat /\ m.chunks[h].size > 0
         /\ Fin(m, h) \in Int /\ Fin(m, h) <= DeviceSize
         /\ \E r \in m.regions : Holds(r, m.chunks[h].ptr) /\ Fin(m, h) <= RegionEnd(r)
         /\ \A r \in m.regions : Holds(r, m.chunks[h].ptr) => Fin(m, h) <= RegionEnd(r)
  <1>1. h \in Handles(m) /\ m.chunks[h].ptr \in Addresses /\ m.chunks[h].ptr \in Int /\ m.chunks[h].size \in Nat
    BY Members DEF Is
  <1>2. m.chunks[h].size > 0
    BY <1>1 DEF Linked
  <1>3. Fin(m, h) \in Int
    BY <1>1 DEF Fin
  <1>4. ASSUME NEW r \in m.regions, Holds(r, m.chunks[h].ptr) PROVE Fin(m, h) <= RegionEnd(r)
    <2>1. NextLink(m, h, r)
      BY <1>1, <1>4 DEF Linked
    <2>2. RegionEnd(r) \in Int
      BY Members DEF RegionEnd
    <2> QED
      BY <1>3, <2>1, <2>2 DEF NextLink
  <1>5. PICK r \in m.regions : Holds(r, m.chunks[h].ptr)
    BY <1>1 DEF Linked
  <1>6. RegionEnd(r) \in Int /\ RegionEnd(r) <= DeviceSize /\ DeviceSize \in Int
    BY Members, BFCAssumption DEF RegionEnd, Regions
  <1> QED
    BY <1>1, <1>2, <1>3, <1>4, <1>5, <1>6

(* No chunk starts inside of another. *)
LEMMA NoneInside ==
  ASSUME NEW m \in MemType, Filed(m), Regions(m), Linked(m), Tiled(m), NEW h, Is(m, h),
         NEW n \in Nat, n > 0, n < m.chunks[h].size
  PROVE  /\ m.chunks[h].ptr + n \in Addresses
         /\ \A g : Is(m, g) => m.chunks[g].ptr # m.chunks[h].ptr + n
         /\ \A r \in m.regions : r.ptr # m.chunks[h].ptr + n
  <1>1. /\ h \in Handles(m) /\ m.chunks[h].ptr \in Addresses /\ m.chunks[h].ptr \in Int
        /\ m.chunks[h].size \in Nat /\ Fin(m, h) <= DeviceSize
    BY ChunkInRegion
  <1>2. m.chunks[h].ptr + n \in Addresses
    BY <1>1, BFCAssumption DEF Addresses, Fin
  <1>3. ASSUME NEW g, Is(m, g) PROVE m.chunks[g].ptr # m.chunks[h].ptr + n
    <2>1. g \in Handles(m) /\ m.chunks[g].ptr \in Int /\ m.chunks[g].size \in Nat /\ m.chunks[g].size > 0
      BY <1>3, ChunkInRegion
    <2>2. CASE g = h
      BY <1>1, <2>2
    <2>3. CASE g # h
      <3>1. Fin(m, g) <= m.chunks[h].ptr \/ Fin(m, h) <= m.chunks[g].ptr
        BY <1>1, <1>3, <2>1, <2>3 DEF Tiled
      <3> QED
        BY <1>1, <2>1, <3>1 DEF Fin
    <2> QED
      BY <2>2, <2>3
  <1>4. ASSUME NEW r \in m.regions PROVE r.ptr # m.chunks[h].ptr + n
    <2>1. r.ptr \in Addresses /\ m.handle[r.ptr] # NoHandle
      BY Members DEF Regions
    <2>2. Is(m, m.handle[r.ptr]) /\ m.chunks[m.handle[r.ptr]].ptr = r.ptr
      BY <2>1 DEF Filed, Is
    <2> QED
      BY <1>3, <2>2
  <1> QED
    BY <1>2, <1>3, <1>4

(* What splitting a free chunk leaves true. *)
LEMMA SplitKeeps ==
  ASSUME NEW m \in MemType, Filed(m), Regions(m), Linked(m), Tiled(m), NEW h, Is(m, h), ~m.chunks[h].used,
         NEW n \in Nat, n > 0, n < m.chunks[h].size, NEW w, NEW k, SplitTo(m, w, h, k, n)
  PROVE  /\ \A g : Is(w, g) <=> Is(m, g) \/ g = k
         /\ Filed(w) /\ Regions(w) /\ Linked(w) /\ Tiled(w)
         /\ UsedBytes(w) = UsedBytes(m)
  <1>1. /\ m.chunks[h].ptr + n \in Addresses
        /\ \A g : Is(m, g) => m.chunks[g].ptr # m.chunks[h].ptr + n
        /\ \A r \in m.regions : r.ptr # m.chunks[h].ptr + n
    BY NoneInside
  <1>2. /\ h \in Handles(m) /\ m.chunks[h].ptr \in Int /\ m.chunks[h].size \in Nat
    BY ChunkInRegion
  <1>3. ~Is(m, k) /\ k # NoHandle /\ h # k /\ Handles(w) = Handles(m) \cup {k} /\ w.regions = m.regions
        /\ RestChunk(m, w, h, k, n)
    BY DEF SplitTo, SameRest
  <1>4. \A g : Is(m, g) => g \in Handles(m) /\ g # k /\ SplitChunkTo(m, w, h, k, n, g)
    BY <1>3 DEF SplitTo, Is
  <1>5. /\ \A g \in Handles(m) : m.chunks[g].ptr \in Int /\ m.chunks[g].size \in Nat /\ m.chunks[g].ptr \in Addresses
        /\ \A g \in Handles(m) : g # NoHandle
    BY Members
  <1>6. ASSUME NEW g PROVE Is(w, g) <=> Is(m, g) \/ g = k
    <2>1. CASE g = k
      BY <1>1, <1>3, <2>1 DEF Is, SplitTo, RestChunk
    <2>2. CASE g # k
      <3>1. g \in Handles(w) <=> g \in Handles(m)
        BY <1>3, <2>2
      <3>2. CASE g \in Handles(m)
        <4>1. w.chunks[g].ptr = m.chunks[g].ptr /\ m.chunks[g].ptr \in Addresses
          BY <1>5, <2>2, <3>2 DEF SplitTo, SplitChunkTo
        <4>2. w.handle[m.chunks[g].ptr] = IF m.chunks[g].ptr = m.chunks[h].ptr + n THEN k ELSE m.handle[m.chunks[g].ptr]
          BY <4>1 DEF SplitTo
        <4> QED
          BY <1>1, <2>2, <3>1, <3>2, <4>1, <4>2 DEF Is
      <3> QED
        BY <2>2, <3>1, <3>2 DEF Is
    <2> QED
      BY <2>1, <2>2
  <1>7. ASSUME NEW g, Is(m, g)
        PROVE  /\ Fin(w, g) = IF g = h THEN m.chunks[h].ptr + n ELSE Fin(m, g)
               /\ w.chunks[g].ptr = m.chunks[g].ptr
    BY <1>4, <1>7 DEF Fin, SplitChunkTo
  <1>8. Fin(w, k) = Fin(m, h) /\ w.chunks[k].ptr = m.chunks[h].ptr + n
    BY <1>2, <1>3 DEF RestChunk, Fin
  <1>9. Filed(w)
    <2>1. ASSUME NEW a \in Addresses, w.handle[a] # NoHandle
          PROVE  w.handle[a] \in Handles(w) /\ w.chunks[w.handle[a]].ptr = a
      <3>1. CASE a = m.chunks[h].ptr + n
        BY <1>3, <1>8, <3>1 DEF SplitTo
      <3>2. CASE a # m.chunks[h].ptr + n
        <4>1. w.handle[a] = m.handle[a]
          BY <3>2 DEF SplitTo
        <4>2. m.handle[a] \in Handles(m) /\ m.chunks[m.handle[a]].ptr = a
          BY <2>1, <4>1 DEF Filed
        <4>3. Is(m, m.handle[a])
          BY <4>2 DEF Is
        <4> QED
          BY <1>3, <1>7, <4>1, <4>2, <4>3
      <3> QED
        BY <3>1, <3>2
    <2>2. \A i \in 1 .. Len(w.spare) : w.spare[i] \in Handles(w) /\ ~Is(w, w.spare[i])
      BY <1>3, <1>6 DEF SplitTo
    <2>3. \A i \in 1 .. Len(w.timestamped) : w.timestamped[i] \in Handles(w)
      BY <1>3 DEF SplitTo
    <2>4. \A i, j \in 1 .. Len(w.spare) : w.spare[i] = w.spare[j] => i = j
      BY DEF SplitTo
    <2> QED
      BY <2>1, <2>2, <2>3, <2>4 DEF Filed
  <1>10. Regions(w)
    <2>1. \A r \in m.regions : r.ptr \in Addresses
      BY Members
    <2>2. \A r \in m.regions : w.handle[r.ptr] = m.handle[r.ptr]
      BY <1>1, <2>1 DEF SplitTo
    <2> QED
      BY <1>3, <2>2 DEF Regions, Apart
  <1>11. PICK x : x = m.chunks[h].next
    OBVIOUS
  <1>12. x # NoHandle => /\ Is(m, x) /\ x # h /\ m.chunks[x].ptr = Fin(m, h) /\ m.chunks[x].prev = h
                         /\ x # k /\ Is(w, x) /\ w.chunks[x].ptr = m.chunks[x].ptr /\ w.chunks[x].prev = k
    <2>1. x # NoHandle => Is(m, x) /\ x # h /\ m.chunks[x].ptr = Fin(m, h) /\ m.chunks[x].prev = h
      BY <1>11, Neighbours
    <2> QED
      BY <1>4, <1>6, <1>11, <2>1 DEF SplitChunkTo
  <1>13. ASSUME NEW r \in m.regions
         PROVE  r.ptr \in Int /\ r.size \in Nat /\ RegionEnd(r) \in Int
    BY Members DEF RegionEnd
  <1>14. ASSUME NEW r \in m.regions
         PROVE  Holds(r, m.chunks[h].ptr + n) <=> Holds(r, m.chunks[h].ptr)
    <2>1. PICK s \in m.regions : Holds(s, m.chunks[h].ptr) /\ Fin(m, h) <= RegionEnd(s)
      BY ChunkInRegion
    <2>2. Holds(s, m.chunks[h].ptr + n)
      BY <1>2, <1>13, <2>1 DEF Holds, Fin
    <2>3. r # s => ~Holds(r, m.chunks[h].ptr + n) /\ ~Holds(r, m.chunks[h].ptr)
      <3>1. r # s => RegionEnd(r) <= s.ptr \/ RegionEnd(s) <= r.ptr
        BY <2>1 DEF Regions, Apart
      <3>2. r.ptr \in Int /\ s.ptr \in Int /\ RegionEnd(r) \in Int /\ RegionEnd(s) \in Int
        BY <1>13
      <3> QED
        BY <1>2, <2>1, <2>2, <3>1, <3>2 DEF Holds
    <2> QED
      BY <2>1, <2>2, <2>3
  <1>15. ASSUME NEW r \in m.regions, Holds(r, m.chunks[h].ptr)
         PROVE  NextLink(w, k, r) /\ PrevLink(w, k, r) /\ NextLink(w, h, r)
    <2>1. NextLink(m, h, r) /\ Fin(m, h) <= RegionEnd(r) /\ r.ptr <= m.chunks[h].ptr
      BY <1>2, <1>15, ChunkInRegion DEF Linked, Holds
    <2>2. w.chunks[k].next = x /\ w.chunks[k].prev = h /\ w.chunks[h].next = k /\ Is(w, h) /\ Is(w, k)
          /\ Fin(w, h) = m.chunks[h].ptr + n
      BY <1>3, <1>4, <1>6, <1>7, <1>11 DEF RestChunk, SplitChunkTo
    <2>3. NextLink(w, k, r)
      <3>1. CASE x = NoHandle
        <4>1. Fin(m, h) = RegionEnd(r)
          BY <1>5, <1>11, <2>1, <3>1 DEF NextLink, Is
        <4> QED
          BY <1>8, <2>2, <3>1, <4>1 DEF NextLink
      <3>2. CASE x # NoHandle
        <4>1. Fin(m, h) < RegionEnd(r)
          BY <1>11, <2>1, <3>2 DEF NextLink
        <4> QED
          BY <1>8, <1>12, <2>2, <3>2, <4>1 DEF NextLink
      <3> QED
        BY <3>1, <3>2
    <2>4. PrevLink(w, k, r)
      BY <1>2, <1>8, <1>13, <2>1, <2>2 DEF PrevLink
    <2>5. NextLink(w, h, r)
      <3>1. m.chunks[h].ptr + n < RegionEnd(r)
        BY <1>2, <1>13, <2>1 DEF Fin
      <3> QED
        BY <1>8, <2>2, <3>1 DEF NextLink
    <2> QED
      BY <2>3, <2>4, <2>5
  <1>16. ASSUME NEW g, Is(m, g), g # h, NEW r \in m.regions, Holds(r, m.chunks[g].ptr)
         PROVE  NextLink(w, g, r)
    <2>1. NextLink(m, g, r) /\ SplitChunkTo(m, w, h, k, n, g)
      BY <1>4, <1>16 DEF Linked
    <2>2. Fin(w, g) = Fin(m, g) /\ w.chunks[g].next = m.chunks[g].next
      BY <1>7, <1>16, <2>1 DEF SplitChunkTo
    <2>3. PICK y : y = m.chunks[g].next
      OBVIOUS
    <2>4. CASE y = NoHandle
      BY <1>5, <2>1, <2>2, <2>3, <2>4 DEF NextLink, Is
    <2>5. CASE y # NoHandle
      <3>1. Is(m, y) /\ m.chunks[y].ptr = Fin(m, g) /\ m.chunks[y].prev = g
        BY <1>16, <2>3, <2>5, Neighbours
      <3>2. y # x
        BY <1>12, <1>16, <2>5, <3>1
      <3>3. w.chunks[y].ptr = m.chunks[y].ptr /\ w.chunks[y].prev = g
        BY <1>4, <1>11, <3>1, <3>2 DEF SplitChunkTo
      <3> QED
        BY <1>6, <2>1, <2>2, <2>3, <2>5, <3>1, <3>3 DEF NextLink
    <2> QED
      BY <2>4, <2>5
  <1>17. ASSUME NEW g, Is(m, g), NEW r \in m.regions, Holds(r, m.chunks[g].ptr)
         PROVE  PrevLink(w, g, r)
    <2>1. PrevLink(m, g, r) /\ SplitChunkTo(m, w, h, k, n, g) /\ w.chunks[g].ptr = m.chunks[g].ptr
      BY <1>4, <1>7, <1>17 DEF Linked
    <2>2. CASE g = x
      <3>1. x # NoHandle
        BY <1>4, <1>5, <1>17, <2>2
      <3>2. m.chunks[g].ptr = Fin(m, h) /\ m.chunks[g].prev = h /\ w.chunks[g].prev = k
        BY <1>12, <2>2, <3>1
      <3>3. m.chunks[g].ptr > r.ptr
        BY <1>2, <1>5, <2>1, <3>2 DEF PrevLink
      <3>4. Is(w, k) /\ w.chunks[k].next = g
        BY <1>3, <1>6, <1>11, <2>2 DEF RestChunk
      <3> QED
        BY <1>8, <2>1, <3>2, <3>3, <3>4 DEF PrevLink
    <2>3. CASE g # x
      <3>1. w.chunks[g].prev = m.chunks[g].prev
        BY <1>11, <2>1, <2>3 DEF SplitChunkTo
      <3>2. PICK p : p = m.chunks[g].prev
        OBVIOUS
      <3>3. CASE p = NoHandle
        BY <1>5, <2>1, <3>1, <3>2, <3>3 DEF PrevLink, Is
      <3>4. CASE p # NoHandle
        <4>1. m.chunks[g].ptr > r.ptr /\ Is(m, p) /\ Fin(m, p) = m.chunks[g].ptr /\ m.chunks[p].next = g
          BY <2>1, <3>2, <3>4 DEF PrevLink
        <4>2. p # h
          BY <1>11, <2>3, <4>1
        <4>3. Fin(w, p) = Fin(m, p) /\ w.chunks[p].next = g /\ Is(w, p)
          BY <1>4, <1>6, <1>7, <4>1, <4>2 DEF SplitChunkTo
        <4> QED
          BY <2>1, <3>1, <3>2, <4>1, <4>3 DEF PrevLink
      <3> QED
        BY <3>3, <3>4
    <2> QED
      BY <2>2, <2>3
  <1>18. Linked(w)
    <2> SUFFICES ASSUME NEW g \in Handles(w), Is(w, g)
                 PROVE  /\ w.chunks[g].size > 0
                        /\ \E r \in m.regions : Holds(r, w.chunks[g].ptr)
                        /\ \A r \in m.regions : Holds(r, w.chunks[g].ptr) => NextLink(w, g, r) /\ PrevLink(w, g, r)
      BY <1>3 DEF Linked
    <2>1. CASE g = k
      <3>1. w.chunks[g].size > 0
        BY <1>2, <1>3, <2>1 DEF RestChunk
      <3>2. \E r \in m.regions : Holds(r, m.chunks[h].ptr)
        BY <1>2 DEF Linked
      <3> QED
        BY <1>8, <1>14, <1>15, <2>1, <3>1, <3>2
    <2>2. CASE g # k
      <3>1. Is(m, g) /\ g \in Handles(m) /\ w.chunks[g].ptr = m.chunks[g].ptr
        BY <1>4, <1>6, <1>7, <2>2
      <3>2. w.chunks[g].size > 0
        BY <1>4, <3>1 DEF Linked, SplitChunkTo
      <3>3. \E r \in m.regions : Holds(r, m.chunks[g].ptr)
        BY <3>1 DEF Linked
      <3> QED
        BY <1>15, <1>16, <1>17, <3>1, <3>2, <3>3
    <2> QED
      BY <2>1, <2>2
  <1>19. Tiled(w)
    <2>1. ASSUME NEW g, NEW f, Is(w, g), Is(w, f), g # f
          PROVE  Fin(w, g) <= w.chunks[f].ptr \/ Fin(w, f) <= w.chunks[g].ptr
      <3>1. ASSUME NEW y, Is(m, y), y # h
            PROVE  /\ Fin(m, h) <= m.chunks[y].ptr \/ Fin(m, y) <= m.chunks[h].ptr
                   /\ m.chunks[y].ptr \in Int /\ Fin(m, y) \in Int
        BY <1>2, <1>4, <1>5, <3>1 DEF Tiled, Fin
      <3>2. Fin(m, h) \in Int /\ m.chunks[h].ptr + n < Fin(m, h)
        BY <1>2 DEF Fin
      <3>3. CASE g = k /\ f = h
        BY <1>2, <1>7, <1>8, <3>3
      <3>4. CASE f = k /\ g = h
        BY <1>2, <1>7, <1>8, <3>4
      <3>5. CASE g = k /\ f # h
        <4>1. Is(m, f)
          BY <1>6, <2>1, <3>5
        <4> QED
          BY <1>2, <1>7, <1>8, <3>1, <3>2, <3>5, <4>1
      <3>6. CASE f = k /\ g # h
        <4>1. Is(m, g)
          BY <1>6, <2>1, <3>6
        <4> QED
          BY <1>2, <1>7, <1>8, <3>1, <3>2, <3>6, <4>1
      <3>7. CASE f # k /\ g # k
        <4>1. Is(m, f) /\ Is(m, g)
          BY <1>6, <2>1, <3>7
        <4>2. CASE f = h
          BY <1>2, <1>7, <2>1, <3>1, <3>2, <4>1, <4>2
        <4>3. CASE g = h
          BY <1>2, <1>7, <2>1, <3>1, <3>2, <4>1, <4>3
        <4>4. CASE f # h /\ g # h
          BY <1>4, <1>7, <2>1, <4>1, <4>4 DEF Tiled
        <4> QED
          BY <4>2, <4>3, <4>4
      <3> QED
        BY <2>1, <3>3, <3>4, <3>5, <3>6, <3>7
    <2>2. ASSUME NEW r \in m.regions, NEW a \in Addresses, Holds(r, a)
          PROVE  \E g \in Handles(w) : Is(w, g) /\ Covers(w, g, a)
      <3>1. PICK g \in Handles(m) : Is(m, g) /\ Covers(m, g, a)
        BY <2>2 DEF Tiled
      <3>2. a \in Int
        BY BFCAssumption DEF Addresses
      <3>3. CASE g # h
        BY <1>3, <1>6, <1>7, <3>1, <3>3 DEF Covers
      <3>4. CASE g = h
        <4>1. Covers(w, h, a) \/ Covers(w, k, a)
          BY <1>2, <1>7, <1>8, <3>1, <3>2, <3>4 DEF Covers
        <4> QED
          BY <1>2, <1>3, <1>6, <4>1
      <3> QED
        BY <3>3, <3>4
    <2> QED
      BY <1>3, <2>1, <2>2 DEF Tiled
  <1>20. UsedBytes(w) = UsedBytes(m)
    <2>1. ASSUME NEW a \in Addresses, NEW g, Is(m, g), g # h
          PROVE  w.chunks[g].used /\ Covers(w, g, a) <=> m.chunks[g].used /\ Covers(m, g, a)
      BY <1>4, <1>7, <2>1 DEF Covers, SplitChunkTo
    <2>2. ~w.chunks[k].used /\ ~w.chunks[h].used
      BY <1>3, <1>4 DEF RestChunk, SplitChunkTo
    <2>3. \A g : Is(w, g) => g \in Handles(w)
      BY DEF Is
    <2> QED
      BY <1>3, <1>4, <1>6, <2>1, <2>2, <2>3 DEF UsedBytes
  <1> QED
    BY <1>6, <1>9, <1>10, <1>18, <1>19, <1>20

--------------------------------------------------------------------------------
(* Chunks in use *)

(* The live handles are the filed ones. *)
LEMMA LiveIs ==
  ASSUME NEW m \in MemType, Filed(m)
  PROVE  \A h : h \in Live(m) <=> Is(m, h)
  <1>1. ASSUME NEW h \in Live(m) PROVE Is(m, h)
    <2>1. PICK a \in Addresses : h = m.handle[a] /\ h # NoHandle
      BY DEF Live
    <2> QED
      BY <2>1 DEF Filed, Is
  <1>2. ASSUME NEW h, Is(m, h) PROVE h \in Live(m)
    <2>1. h \in Handles(m) /\ m.chunks[h].ptr \in Addresses /\ h # NoHandle
      BY <1>2, Members DEF Is
    <2> QED
      BY <1>2, <2>1 DEF Live, Is
  <1> QED
    BY <1>1, <1>2

(* As SamePlaces, but for whether the chunk h is in use. *)
SameButUse(m, w, h) ==
  /\ w \in MemType /\ Handles(w) = Handles(m) /\ w.handle = m.handle /\ w.spare = m.spare
  /\ w.regions = m.regions /\ w.timestamped = m.timestamped
  /\ \A g \in Handles(m) :
       /\ w.chunks[g].ptr = m.chunks[g].ptr /\ w.chunks[g].size = m.chunks[g].size
       /\ w.chunks[g].prev = m.chunks[g].prev /\ w.chunks[g].next = m.chunks[g].next
       /\ g # h => w.chunks[g] = m.chunks[g]

(* Nothing about places depends on the use. *)
LEMMA UseKeeps ==
  ASSUME NEW m \in MemType, NEW w, NEW h, SameButUse(m, w, h), Filed(m), Regions(m), Linked(m), Tiled(m)
  PROVE  /\ \A g : Is(w, g) <=> Is(m, g)
         /\ Filed(w) /\ Regions(w) /\ Linked(w) /\ Tiled(w)
  <1>1. \A g : Is(w, g) <=> Is(m, g)
    BY DEF Is, SameButUse
  <1>2. \A g \in Handles(m) : Fin(w, g) = Fin(m, g) /\ \A a : Covers(w, g, a) <=> Covers(m, g, a)
    BY DEF SameButUse, Fin, Covers
  <1>3. Filed(w)
    BY <1>1 DEF Filed, SameButUse
  <1>4. Regions(w)
    BY DEF Regions, Apart, SameButUse
  <1>5. Tiled(w)
    BY <1>1, <1>2 DEF Tiled, SameButUse
  <1>6. \A g \in Handles(m), r \in m.regions :
           /\ NextLink(m, g, r) => NextLink(w, g, r)
           /\ PrevLink(m, g, r) => PrevLink(w, g, r)
    <2>1. \A g : Is(m, g) => g \in Handles(m)
      BY DEF Is
    <2> QED
      BY <1>1, <1>2, <2>1 DEF NextLink, PrevLink, SameButUse
  <1>7. Linked(w)
    BY <1>1, <1>6 DEF Linked, SameButUse
  <1> QED
    BY <1>1, <1>3, <1>4, <1>5, <1>7

(* The bytes of a chunk that comes into use are new ones. *)
LEMMA UseBytes ==
  ASSUME NEW m \in MemType, NEW w, NEW h, SameButUse(m, w, h), Filed(m), Regions(m), Linked(m), Tiled(m),
         Is(m, h), ~m.chunks[h].used, w.chunks[h].used
  PROVE  /\ Cardinality(UsedBytes(w)) = Cardinality(UsedBytes(m)) + m.chunks[h].size
         /\ Cardinality(UsedBytes(m)) \in Nat
  <1>1. /\ h \in Handles(m) /\ m.chunks[h].ptr \in Addresses /\ m.chunks[h].ptr \in Int
        /\ m.chunks[h].size \in Nat /\ m.chunks[h].size > 0 /\ Fin(m, h) <= DeviceSize
    BY ChunkInRegion
  <1>2. PICK p \in Nat, n \in Nat : p = m.chunks[h].ptr /\ n = m.chunks[h].size /\ n > 0 /\ p + n <= DeviceSize
    BY <1>1, BFCAssumption DEF Addresses, Fin
  <1> DEFINE I == p .. p + n - 1
  <1>3. IsFiniteSet(I) /\ Cardinality(I) = n
    <2>1. p \in Int /\ p + n - 1 \in Int /\ ~(p > p + n - 1) /\ (p + n - 1) - p + 1 = n
      BY <1>2
    <2>2. PICK q \in Int : q = p + n - 1
      BY <2>1
    <2> QED
      BY <2>1, <2>2, FS_Interval
  <1>4. I \subseteq Addresses /\ \A a \in Addresses : a \in I <=> Covers(m, h, a)
    BY <1>2, BFCAssumption DEF Addresses, Covers, Fin
  <1> HIDE DEF I
  <1>5. \A g : Is(w, g) <=> Is(m, g)
    BY UseKeeps
  <1>6. \A g \in Handles(m), a \in Addresses : Covers(w, g, a) <=> Covers(m, g, a)
    BY DEF SameButUse, Covers, Fin
  <1>7. UsedBytes(w) = UsedBytes(m) \cup I
    <2>1. ASSUME NEW a \in UsedBytes(w) PROVE a \in UsedBytes(m) \cup I
      <3>1. PICK g \in Handles(m) : a \in Addresses /\ Is(w, g) /\ w.chunks[g].used /\ Covers(w, g, a)
        BY DEF UsedBytes, SameButUse
      <3>2. CASE g = h
        BY <1>4, <1>6, <3>1, <3>2
      <3>3. CASE g # h
        BY <1>5, <1>6, <3>1, <3>3 DEF UsedBytes, SameButUse
      <3> QED
        BY <3>2, <3>3
    <2>2. ASSUME NEW a \in UsedBytes(m) PROVE a \in UsedBytes(w)
      <3>1. PICK g \in Handles(m) : a \in Addresses /\ Is(m, g) /\ m.chunks[g].used /\ Covers(m, g, a)
        BY DEF UsedBytes
      <3>2. g # h /\ w.chunks[g] = m.chunks[g] /\ g \in Handles(w)
        BY <3>1 DEF SameButUse
      <3> QED
        BY <1>5, <1>6, <3>1, <3>2 DEF UsedBytes
    <2>3. ASSUME NEW a \in I PROVE a \in UsedBytes(w)
      <3>1. a \in Addresses /\ Covers(w, h, a) /\ Is(w, h) /\ h \in Handles(w)
        BY <1>1, <1>4, <1>5, <1>6 DEF SameButUse
      <3> QED
        BY <3>1 DEF UsedBytes
    <2> QED
      BY <2>1, <2>2, <2>3
  <1>8. UsedBytes(m) \cap I = {}
    <2> SUFFICES ASSUME NEW a \in UsedBytes(m), a \in I PROVE FALSE
      OBVIOUS
    <2>1. PICK g \in Handles(m) : a \in Addresses /\ Is(m, g) /\ m.chunks[g].used /\ Covers(m, g, a)
      BY DEF UsedBytes
    <2>2. Covers(m, h, a) /\ g # h
      BY <1>4, <2>1
    <2>3. Fin(m, g) <= m.chunks[h].ptr \/ Fin(m, h) <= m.chunks[g].ptr
      BY <1>1, <2>1, <2>2 DEF Tiled
    <2>4. a \in Int /\ m.chunks[g].ptr \in Int /\ m.chunks[g].size \in Nat
      BY <2>1, Members, BFCAssumption DEF Addresses
    <2> QED
      BY <1>1, <2>1, <2>2, <2>3, <2>4 DEF Covers, Fin
  <1>9. IsFiniteSet(UsedBytes(m)) /\ Cardinality(UsedBytes(m)) \in Nat
    <2>1. IsFiniteSet(Addresses)
      BY FS_Interval, BFCAssumption DEF Addresses
    <2>2. UsedBytes(m) \subseteq Addresses
      BY DEF UsedBytes
    <2> QED
      BY <2>1, <2>2, FS_Subset, FS_CardinalityType
  <1>10. Cardinality(UsedBytes(w)) = Cardinality(UsedBytes(m)) + n - Cardinality(UsedBytes(m) \cap I)
    BY <1>3, <1>7, <1>9, FS_Union
  <1>11. Cardinality(UsedBytes(m) \cap I) = 0
    BY <1>8, FS_EmptySet
  <1> QED
    BY <1>1, <1>2, <1>9, <1>10, <1>11

UsedTo(m, w, h) ==
  /\ Good(w, NoHandle) /\ SameButUse(m, w, h) /\ w.chunks[h].used /\ w.chunks[h].freed = m.chunks[h].freed
  /\ w.gc = m.gc /\ w.timed = m.timed /\ w.frontier = m.frontier
  /\ \A g : Is(w, g) <=> Is(m, g)
UnusedTo(m, w, h, f) ==
  /\ Good(w, h) /\ SameButUse(m, w, h) /\ ~w.chunks[h].used /\ w.chunks[h].freed = f
  /\ w.gc = m.gc /\ w.timed = m.timed /\ w.frontier = m.frontier /\ w.hung = m.hung
  /\ Is(m, h) /\ \A g : Is(w, g) <=> Is(m, g)

(* The chunk in hand comes into use. *)
LEMMA UseStep ==
  ASSUME NEW m, NEW h, Good(m, h), Is(m, h), ~m.chunks[h].used,
         NEW w, w = [m EXCEPT !.chunks[h].used = TRUE, !.in_use = @ + m.chunks[h].size]
  PROVE  UsedTo(m, w, h)
  <1>1. m \in MemType /\ h \in Handles(m) /\ Filed(m) /\ Binned(m, h) /\ Regions(m) /\ Linked(m) /\ Tiled(m) /\ Counted(m)
    BY DEF Good, Is
  <1>2. /\ m.chunks[h] \in ChunkType /\ m.chunks[h].size \in Nat /\ m.in_use \in Int
        /\ m.chunks \in Seq(ChunkType) /\ h \in 1 .. Len(m.chunks)
    BY <1>1, Members DEF Handles
  <1>3. PICK c : c = [m.chunks[h] EXCEPT !.used = TRUE]
    OBVIOUS
  <1>4. /\ c \in ChunkType /\ c.used = TRUE
        /\ c.ptr = m.chunks[h].ptr /\ c.size = m.chunks[h].size /\ c.prev = m.chunks[h].prev
        /\ c.next = m.chunks[h].next /\ c.bin = m.chunks[h].bin /\ c.freed = m.chunks[h].freed
    BY <1>2, <1>3 DEF ChunkType
  <1>5. PICK v : v = Put(m, h, c)
    OBVIOUS
  <1>6. PutTo(m, v, h, c)
    BY ONLY <1>1, <1>4, <1>5, PutChunk
  <1>7. /\ v \in MemType /\ Handles(v) = Handles(m) /\ SameRest(m, v)
        /\ v.handle = m.handle /\ v.spare = m.spare /\ v.timestamped = m.timestamped
        /\ v.chunks[h] = c /\ \A g \in Handles(m) : g # h => v.chunks[g] = m.chunks[g]
    BY <1>6 DEF PutTo
  <1>8. w = [v EXCEPT !.in_use = m.in_use + m.chunks[h].size]
    BY <1>1, <1>3, <1>5 DEF Put, MemType
  <1>9. /\ w \in MemType /\ w.chunks = v.chunks /\ w.handle = v.handle /\ w.spare = v.spare
        /\ w.timestamped = v.timestamped /\ w.regions = v.regions /\ w.total = v.total
        /\ w.gc = v.gc /\ w.timed = v.timed /\ w.frontier = v.frontier
        /\ w.in_use = m.in_use + m.chunks[h].size
    <2>1. m.in_use + m.chunks[h].size \in Int
      BY <1>2
    <2>2. v \in MemType
      BY <1>7
    <2> QED
      BY ONLY <1>8, <2>1, <2>2 DEF MemType
  <1>10. SameButUse(m, w, h)
    BY <1>4, <1>7, <1>9 DEF SameButUse, SameRest, Handles
  <1>11. w.chunks[h].used
    BY <1>4, <1>7, <1>9
  <1>12. /\ \A g : Is(w, g) <=> Is(m, g)
         /\ Filed(w) /\ Regions(w) /\ Linked(w) /\ Tiled(w)
    BY <1>1, <1>10, UseKeeps
  <1>13. Cardinality(UsedBytes(w)) = Cardinality(UsedBytes(m)) + m.chunks[h].size
    BY <1>1, <1>10, <1>11, UseBytes
  <1>14. Counted(w)
    BY <1>1, <1>7, <1>9, <1>13 DEF Counted, SameRest
  <1>15. \A g \in Handles(m) : g # NoHandle
    BY <1>1, Members
  <1>16. w.chunks[h] = c /\ Handles(w) = Handles(m) /\ \A g \in Handles(m) : g # h => w.chunks[g] = m.chunks[g]
    BY <1>7, <1>9 DEF Handles
  <1>17. Binned(w, NoHandle)
    BY <1>1, <1>4, <1>12, <1>15, <1>16 DEF Binned
  <1> QED
    BY <1>4, <1>7, <1>9, <1>10, <1>11, <1>12, <1>14, <1>16, <1>17 DEF Good, SameRest, UsedTo

(* A chunk in hand that comes into use needs no merging; one that is freed may. *)
LEMMA UseMerged ==
  ASSUME NEW m \in MemType, Regions(m), Linked(m), NEW w, NEW h, SameButUse(m, w, h), \A g : Is(w, g) <=> Is(m, g)
  PROVE  /\ Merged(m, h) /\ w.chunks[h].used /\ w.chunks[h].freed = m.chunks[h].freed => Merged(w, NoHandle)
         /\ Merged(m, NoHandle) /\ ~w.chunks[h].used /\ w.chunks[h].freed = 0 => Merged(w, h)
  <1>1. ASSUME NEW g, Is(m, g)
        PROVE  /\ g \in Handles(m) /\ w.chunks[g].next = m.chunks[g].next /\ (g # h => w.chunks[g] = m.chunks[g])
               /\ m.chunks[g].next # NoHandle => Is(m, m.chunks[g].next)
    BY <1>1, Neighbours DEF SameButUse, Is
  <1>2. ASSUME Merged(m, h), w.chunks[h].used, w.chunks[h].freed = m.chunks[h].freed, NEW g, Is(m, g)
        PROVE  w.chunks[g].freed = 0 /\ (~w.chunks[g].used => Settled(w, g))
    <2>1. w.chunks[g].freed = 0
      BY <1>1, <1>2 DEF Merged
    <2>2. ASSUME ~w.chunks[g].used PROVE Settled(w, g)
      <3>1. g # h /\ ~m.chunks[g].used
        BY <1>1, <1>2, <2>2
      <3>2. Settled(m, g) \/ m.chunks[g].next = h
        BY <1>2, <3>1 DEF Merged
      <3> QED
        BY <1>1, <1>2, <3>2 DEF Settled
    <2> QED
      BY <2>1, <2>2
  <1>3. ASSUME Merged(m, NoHandle), ~w.chunks[h].used, w.chunks[h].freed = 0, NEW g, Is(m, g)
        PROVE  /\ w.chunks[g].freed = 0
               /\ ~w.chunks[g].used /\ g # h => Settled(w, g) \/ w.chunks[g].next = h
    <2>1. w.chunks[g].freed = 0
      BY <1>1, <1>3 DEF Merged
    <2>2. ASSUME ~w.chunks[g].used, g # h PROVE Settled(w, g) \/ w.chunks[g].next = h
      <3>1. g # NoHandle /\ ~m.chunks[g].used
        BY <1>1, <1>3, <2>2, Members
      <3>2. Settled(m, g)
        BY <1>3, <3>1 DEF Merged, Settled
      <3> QED
        BY <1>1, <1>3, <3>2 DEF Settled
    <2> QED
      BY <2>1, <2>2
  <1> QED
    BY <1>2, <1>3 DEF Merged

(* The chunk h, in use until now, is in hand: MarkFree. *)
LEMMA FreeStep ==
  ASSUME NEW m, NEW h, Good(m, NoHandle), h \in Handles(m), m.chunks[h].used, NEW f \in Nat,
         NEW w, w = [m EXCEPT !.chunks[h] = [m.chunks[h] EXCEPT !.used = FALSE, !.freed = f],
                              !.in_use = @ - m.chunks[h].size]
  PROVE  UnusedTo(m, w, h, f)
  <1>1. m \in MemType /\ Filed(m) /\ Binned(m, NoHandle) /\ Regions(m) /\ Linked(m) /\ Tiled(m) /\ Counted(m)
    BY DEF Good
  <1>2. /\ m.chunks[h] \in ChunkType /\ m.chunks[h].size \in Nat /\ m.in_use \in Int
        /\ m.chunks \in Seq(ChunkType) /\ h \in 1 .. Len(m.chunks) /\ Is(m, h) /\ m.chunks[h].bin = NoBin
    BY <1>1, Members DEF Handles, Binned
  <1>3. PICK c : c = [m.chunks[h] EXCEPT !.used = FALSE, !.freed = f]
    OBVIOUS
  <1>4. /\ c \in ChunkType /\ c.used = FALSE /\ c.freed = f
        /\ c.ptr = m.chunks[h].ptr /\ c.size = m.chunks[h].size /\ c.prev = m.chunks[h].prev
        /\ c.next = m.chunks[h].next /\ c.bin = m.chunks[h].bin
    BY <1>2, <1>3 DEF ChunkType
  <1>5. PICK v : v = Put(m, h, c)
    OBVIOUS
  <1>6. PutTo(m, v, h, c)
    BY ONLY <1>1, <1>4, <1>5, h \in Handles(m), PutChunk
  <1>7. /\ v \in MemType /\ Handles(v) = Handles(m) /\ SameRest(m, v)
        /\ v.handle = m.handle /\ v.spare = m.spare /\ v.timestamped = m.timestamped
        /\ v.chunks[h] = c /\ \A g \in Handles(m) : g # h => v.chunks[g] = m.chunks[g]
    BY <1>6 DEF PutTo
  <1>8. w = [v EXCEPT !.in_use = m.in_use - m.chunks[h].size]
    BY <1>1, <1>3, <1>5 DEF Put, MemType
  <1>9. /\ w \in MemType /\ w.chunks = v.chunks /\ w.handle = v.handle /\ w.spare = v.spare
        /\ w.timestamped = v.timestamped /\ w.regions = v.regions /\ w.total = v.total
        /\ w.gc = v.gc /\ w.timed = v.timed /\ w.frontier = v.frontier /\ w.hung = v.hung
        /\ w.in_use = m.in_use - m.chunks[h].size
    <2>1. m.in_use - m.chunks[h].size \in Int
      BY <1>2
    <2>2. v \in MemType
      BY <1>7
    <2> QED
      BY ONLY <1>8, <2>1, <2>2 DEF MemType
  <1>10. SameButUse(m, w, h)
    BY <1>4, <1>7, <1>9 DEF SameButUse, SameRest, Handles
  <1>11. ~w.chunks[h].used /\ w.chunks[h].freed = f
    BY <1>4, <1>7, <1>9
  <1>12. /\ \A g : Is(w, g) <=> Is(m, g)
         /\ Filed(w) /\ Regions(w) /\ Linked(w) /\ Tiled(w)
    BY <1>1, <1>10, UseKeeps
  <1>13. SameButUse(w, m, h) /\ w.chunks[h].size = m.chunks[h].size
    BY <1>1, <1>4, <1>10 DEF SameButUse
  <1>14. /\ Cardinality(UsedBytes(m)) = Cardinality(UsedBytes(w)) + m.chunks[h].size
         /\ Cardinality(UsedBytes(w)) \in Nat
    <2>1. w \in MemType /\ Is(w, h) /\ ~w.chunks[h].used /\ m.chunks[h].used
      BY <1>2, <1>9, <1>11, <1>12
    <2> QED
      BY ONLY <1>12, <1>13, <2>1, UseBytes
  <1>15. Counted(w)
    BY <1>1, <1>2, <1>7, <1>9, <1>14 DEF Counted, SameRest
  <1>16. \A g \in Handles(m) : g # NoHandle
    BY <1>1, Members
  <1>17. w.chunks[h] = c /\ Handles(w) = Handles(m) /\ \A g \in Handles(m) : g # h => w.chunks[g] = m.chunks[g]
    BY <1>7, <1>9 DEF Handles
  <1>18. Binned(w, h)
    BY <1>1, <1>2, <1>4, <1>12, <1>16, <1>17 DEF Binned
  <1> QED
    BY <1>2, <1>7, <1>9, <1>10, <1>11, <1>12, <1>15, <1>18 DEF Good, SameRest, UnusedTo

--------------------------------------------------------------------------------
(* What an operation keeps *)

Timely(m, F) == Stamped(m, F) /\ Fresh(m, F)

SameMode(m, w) ==
  /\ w.gc = m.gc /\ w.timed = m.timed /\ w.frontier = m.frontier
  /\ ~m.timed /\ m.timestamped = <<>> => w.timestamped = <<>>
  /\ \A F \in Times : Timely(m, F) => Timely(w, F)

SameBlock(m, w, g) ==
  w.chunks[g].used /\ w.chunks[g].ptr = m.chunks[g].ptr /\ w.chunks[g].size = m.chunks[g].size

(* Nothing waits for its time, and then free neighbours are merged. *)
Idle(m) == ~m.timed /\ m.timestamped = <<>>
Tidy(m, w) == Idle(m) /\ Merged(m, NoHandle) => Idle(w) /\ Merged(w, NoHandle)

(* The chunks in use are those that were. *)
Kept(m, w) ==
  /\ SameMode(m, w) /\ Handles(m) \subseteq Handles(w)
  /\ \A g \in Handles(w) : w.chunks[g].used => g \in Handles(m) /\ m.chunks[g].used
  /\ \A g \in Handles(m) : m.chunks[g].used => SameBlock(m, w, g)

(* They are, and the chunk h besides, which has n bytes and was freed in time. *)
Taken(m, w, h, n, before) ==
  /\ Is(m, h) /\ ~m.chunks[h].used /\ FreedInTime(m.chunks[h], before)
  /\ w.chunks[h].used /\ w.chunks[h].ptr = m.chunks[h].ptr
  /\ n <= w.chunks[h].size /\ w.chunks[h].size <= m.chunks[h].size
  /\ SameMode(m, w) /\ Handles(m) \subseteq Handles(w)
  /\ \A g \in Handles(w) : w.chunks[g].used => g = h \/ (g \in Handles(m) /\ m.chunks[g].used)
  /\ \A g \in Handles(m) : m.chunks[g].used => SameBlock(m, w, g)

(* Kept is reflexive. *)
LEMMA KeptSame ==
  ASSUME NEW m PROVE Kept(m, m)
  BY DEF Kept, SameMode, SameBlock

(* Kept is transitive. *)
LEMMA KeptTwice ==
  ASSUME NEW m, NEW v, NEW w, Kept(m, v), Kept(v, w)
  PROVE  Kept(m, w)
  <1>1. SameMode(m, w)
    BY DEF Kept, SameMode
  <1>2. Handles(m) \subseteq Handles(w)
    BY DEF Kept
  <1>3. \A g \in Handles(w) : w.chunks[g].used => g \in Handles(m) /\ m.chunks[g].used
    BY DEF Kept
  <1>4. \A g \in Handles(m) : m.chunks[g].used => SameBlock(m, w, g)
    BY <1>2 DEF Kept, SameBlock
  <1> QED
    BY <1>1, <1>2, <1>3, <1>4 DEF Kept

(* Merging free chunks keeps the others. *)
LEMMA CoarserKept ==
  ASSUME NEW m, NEW w, Coarser(m, w), m.timestamped = <<>> => w.timestamped = <<>>
  PROVE  Kept(m, w)
  <1>1. SameMode(m, w)
    BY DEF Coarser, SameRest, SameMode, Timely, Fresh
  <1> QED
    BY <1>1 DEF Coarser, Kept, SameBlock

(* Splitting the chunk in hand. *)
LEMMA SplitStep ==
  ASSUME NEW m, NEW h, Good(m, h), Is(m, h), ~m.chunks[h].used,
         NEW n \in Nat, n > 0, n < m.chunks[h].size, NEW w, w = SplitChunk(m, h, n)
  PROVE  /\ Good(w, h) /\ Is(w, h) /\ ~w.chunks[h].used /\ Kept(m, w)
         /\ w.chunks[h].size = n /\ w.chunks[h].ptr = m.chunks[h].ptr
         /\ Merged(m, NoHandle) => Merged(w, h)
  <1>1. m \in MemType /\ Filed(m) /\ Regions(m) /\ Linked(m) /\ Tiled(m) /\ Binned(m, h) /\ Counted(m)
    BY DEF Good
  <1>2. m.chunks[h].ptr + n \in Addresses
    BY <1>1, NoneInside
  <1>3. PICK k : k = NextHandle(m)
    OBVIOUS
  <1>4. SplitTo(m, w, h, k, n)
    <2>1. m.chunks[h].next # NoHandle => Is(m, m.chunks[h].next) /\ m.chunks[h].next # h
      BY <1>1, Neighbours
    <2> QED
      BY <1>1, <1>2, <1>3, <2>1, SplitFacts
  <1>5. /\ \A g : Is(w, g) <=> Is(m, g) \/ g = k
        /\ Filed(w) /\ Regions(w) /\ Linked(w) /\ Tiled(w)
        /\ UsedBytes(w) = UsedBytes(m)
    BY <1>1, <1>4, SplitKeeps
  <1>6. /\ w \in MemType /\ SameRest(m, w) /\ w.timestamped = m.timestamped
        /\ Handles(w) = Handles(m) \cup {k} /\ k # NoHandle /\ ~Is(m, k) /\ RestChunk(m, w, h, k, n)
        /\ \A g \in Handles(m) : g # k => SplitChunkTo(m, w, h, k, n, g)
    BY <1>4 DEF SplitTo
  <1>7. h # k /\ h \in Handles(m) /\ SplitChunkTo(m, w, h, k, n, h)
    BY <1>6 DEF Is
  <1>8. Counted(w)
    BY <1>1, <1>5, <1>6 DEF Counted, SameRest
  <1>9. k \in Handles(m) => ~m.chunks[k].used /\ m.chunks[k].bin = NoBin
    BY <1>1, <1>6 DEF Binned
  <1>10. Binned(w, h)
    <2> SUFFICES ASSUME NEW g \in Handles(w)
                 PROVE  /\ w.chunks[g].used => Is(w, g) /\ w.chunks[g].bin = NoBin
                        /\ w.chunks[g].bin # NoBin => Is(w, g)
                        /\ Is(w, g) /\ ~w.chunks[g].used /\ g # h => w.chunks[g].bin = BinNumForSize(w.chunks[g].size)
                        /\ g = h => w.chunks[g].bin = NoBin
      BY DEF Binned
    <2>1. CASE g = k
      BY <1>5, <1>6, <1>7, <2>1 DEF RestChunk
    <2>2. CASE g # k
      <3>1. g \in Handles(m) /\ SplitChunkTo(m, w, h, k, n, g)
        BY <1>6, <2>2
      <3>2. w.chunks[g].used = m.chunks[g].used /\ w.chunks[g].bin = m.chunks[g].bin
            /\ (g # h => w.chunks[g].size = m.chunks[g].size) /\ (Is(w, g) <=> Is(m, g))
        BY <1>5, <2>2, <3>1 DEF SplitChunkTo
      <3> QED
        BY <1>1, <3>1, <3>2 DEF Binned
    <2> QED
      BY <2>1, <2>2
  <1>11. ASSUME NEW F \in Times, Stamped(m, F) PROVE Stamped(w, F)
    <2> SUFFICES ASSUME NEW g \in Handles(w), Is(w, g), ~w.chunks[g].used, NEW a \in Addresses, Covers(w, g, a)
                 PROVE  F[a] <= w.chunks[g].freed \/ F[a] < w.frontier
      BY DEF Stamped
    <2>1. /\ m.chunks[h].ptr \in Int /\ m.chunks[h].size \in Nat /\ a \in Int /\ w.frontier = m.frontier
      BY <1>1, <1>6, <1>7, Members, BFCAssumption DEF Addresses, SameRest
    <2>2. CASE g = k
      <3>1. Covers(m, h, a) /\ w.chunks[g].freed = m.chunks[h].freed
        BY <1>6, <2>1, <2>2 DEF RestChunk, Covers, Fin
      <3> QED
        BY <1>7, <1>11, <2>1, <3>1 DEF Stamped
    <2>3. CASE g = h
      <3>1. Covers(m, h, a) /\ w.chunks[g].freed = m.chunks[h].freed
        BY <1>7, <2>1, <2>3 DEF SplitChunkTo, Covers, Fin
      <3> QED
        BY <1>7, <1>11, <2>1, <3>1 DEF Stamped
    <2>4. CASE g # k /\ g # h
      <3>1. g \in Handles(m) /\ SplitChunkTo(m, w, h, k, n, g) /\ Is(m, g)
        BY <1>5, <1>6, <2>4
      <3>2. Covers(m, g, a) /\ w.chunks[g].freed = m.chunks[g].freed /\ ~m.chunks[g].used
        BY <2>4, <3>1 DEF SplitChunkTo, Covers, Fin
      <3> QED
        BY <1>11, <2>1, <3>1, <3>2 DEF Stamped
    <2> QED
      BY <2>2, <2>3, <2>4
  <1>12. SameMode(m, w)
    BY <1>6, <1>11 DEF SameMode, SameRest, Timely, Fresh
  <1>13. Kept(m, w)
    <2>1. \A g \in Handles(w) : w.chunks[g].used => g \in Handles(m) /\ m.chunks[g].used
      BY <1>6 DEF RestChunk, SplitChunkTo
    <2>2. \A g \in Handles(m) : m.chunks[g].used => SameBlock(m, w, g)
      BY <1>6, <1>9 DEF SplitChunkTo, SameBlock
    <2> QED
      BY <1>6, <1>12, <2>1, <2>2 DEF Kept
  <1>14. ASSUME Merged(m, NoHandle) PROVE Merged(w, h)
    <2>1. ASSUME NEW g, Is(m, g)
          PROVE  /\ g \in Handles(m) /\ g # k /\ g # NoHandle /\ SplitChunkTo(m, w, h, k, n, g)
                 /\ m.chunks[g].next # NoHandle => Is(m, m.chunks[g].next)
      BY <1>1, <1>6, <2>1, Neighbours, Members DEF Is
    <2>2. ASSUME NEW g, Is(m, g), ~m.chunks[g].used
          PROVE  /\ m.chunks[g].freed = 0
                 /\ m.chunks[g].next = NoHandle \/ w.chunks[m.chunks[g].next].used
      <3>1. m.chunks[g].freed = 0 /\ Settled(m, g)
        BY <1>14, <2>1, <2>2 DEF Merged, Settled
      <3>2. m.chunks[g].next # NoHandle => SplitChunkTo(m, w, h, k, n, m.chunks[g].next)
        BY <2>1, <2>2
      <3> QED
        BY <3>1, <3>2 DEF SplitChunkTo, Settled
    <2>3. ASSUME NEW g, Is(w, g)
          PROVE  w.chunks[g].freed = 0 /\ (~w.chunks[g].used /\ g # h => Settled(w, g))
      <3>1. CASE g = k
        BY <1>6, <2>2, <3>1 DEF RestChunk, Settled
      <3>2. CASE g # k
        <4>1. Is(m, g) /\ SplitChunkTo(m, w, h, k, n, g)
          BY <1>5, <2>1, <2>3, <3>2
        <4>2. m.chunks[g].freed = 0
          BY <1>14, <4>1 DEF Merged
        <4> QED
          BY <2>2, <4>1, <4>2 DEF SplitChunkTo, Settled
      <3> QED
        BY <3>1, <3>2
    <2> QED
      BY <2>3 DEF Merged
  <1> QED
    BY <1>5, <1>6, <1>7, <1>8, <1>10, <1>13, <1>14 DEF Good, SplitChunkTo

(* The search ends at a best chunk if any fits. *)
LEMMA BestFit ==
  ASSUME NEW m \in MemType, NEW fits, fits # {}, \A h \in fits : h \in Handles(m) /\ m.chunks[h].bin >= 0
  PROVE  \E g \in fits : \A f \in fits :
           \/ m.chunks[g].bin < m.chunks[f].bin
           \/ m.chunks[g].bin = m.chunks[f].bin /\
                (m.chunks[g].size < m.chunks[f].size \/
                  (m.chunks[g].size = m.chunks[f].size /\ m.chunks[g].ptr <= m.chunks[f].ptr))
  <1>1. ASSUME NEW h \in fits
        PROVE  m.chunks[h].bin \in Nat /\ m.chunks[h].size \in Nat /\ m.chunks[h].ptr \in Nat
    <2>1. h \in Handles(m) /\ m.chunks[h].bin >= 0
      OBVIOUS
    <2>2. m.chunks[h].bin \in Int /\ m.chunks[h].size \in Nat /\ m.chunks[h].ptr \in Addresses
      BY <2>1, Members
    <2> QED
      BY <2>1, <2>2, BFCAssumption DEF Addresses
  <1>2. PICK b \in fits : \A f \in fits : m.chunks[b].bin <= m.chunks[f].bin
    <2>1. PICK N : N = {m.chunks[h].bin : h \in fits}
      OBVIOUS
    <2>2. N \in SUBSET Nat /\ N # {}
      BY <1>1, <2>1
    <2>3. PICK k \in N : \A j \in N : k <= j
      BY ONLY <2>2, LeastNumber
    <2> QED
      BY <2>1, <2>3
  <1>3. PICK A : A = {h \in fits : m.chunks[h].bin = m.chunks[b].bin}
    OBVIOUS
  <1>4. PICK s \in A : \A f \in A : m.chunks[s].size <= m.chunks[f].size
    <2>1. PICK N : N = {m.chunks[h].size : h \in A}
      OBVIOUS
    <2>2. N \in SUBSET Nat /\ N # {}
      BY <1>1, <1>3, <2>1
    <2>3. PICK k \in N : \A j \in N : k <= j
      BY ONLY <2>2, LeastNumber
    <2> QED
      BY <2>1, <2>3
  <1>5. PICK B : B = {h \in A : m.chunks[h].size = m.chunks[s].size}
    OBVIOUS
  <1>6. PICK g \in B : \A f \in B : m.chunks[g].ptr <= m.chunks[f].ptr
    <2>1. PICK N : N = {m.chunks[h].ptr : h \in B}
      OBVIOUS
    <2>2. N \in SUBSET Nat /\ N # {}
      BY <1>1, <1>3, <1>5, <2>1
    <2>3. PICK k \in N : \A j \in N : k <= j
      BY ONLY <2>2, LeastNumber
    <2> QED
      BY <2>1, <2>3
  <1>7. g \in fits
    BY <1>3, <1>5, <1>6
  <1> SUFFICES ASSUME NEW f \in fits
               PROVE  \/ m.chunks[g].bin < m.chunks[f].bin
                      \/ m.chunks[g].bin = m.chunks[f].bin /\
                           (m.chunks[g].size < m.chunks[f].size \/
                             (m.chunks[g].size = m.chunks[f].size /\ m.chunks[g].ptr <= m.chunks[f].ptr))
    BY <1>7
  <1>8. m.chunks[g].bin = m.chunks[b].bin /\ m.chunks[g].size = m.chunks[s].size
    BY <1>3, <1>5, <1>6
  <1>9. CASE f \notin A
    BY <1>1, <1>2, <1>3, <1>7, <1>8, <1>9
  <1>10. CASE f \in A /\ f \notin B
    BY <1>1, <1>3, <1>4, <1>5, <1>7, <1>8, <1>10
  <1>11. CASE f \in B
    BY <1>3, <1>5, <1>6, <1>8, <1>11
  <1> QED
    BY <1>5, <1>9, <1>10, <1>11

(* FindChunkPtr: no free chunk is large enough, or one of them is taken. *)
LEMMA FindStep ==
  ASSUME NEW m, Good(m, NoHandle), NEW n \in Nat, n > 0, NEW before \in Nat,
         NEW y, y = FindChunkPtr(m, n, before)
  PROVE  \/ /\ y.m = m /\ y.ptr = Null
            /\ \A h : Is(m, h) /\ ~m.chunks[h].used /\ FreedInTime(m.chunks[h], before) => m.chunks[h].size < n
         \/ /\ Good(y.m, NoHandle) /\ Tidy(m, y.m)
            /\ \E h : Taken(m, y.m, h, n, before) /\ y.ptr = m.chunks[h].ptr
  <1>1. m \in MemType /\ Filed(m) /\ Binned(m, NoHandle)
    BY DEF Good
  <1>2. \A h : h \in Live(m) <=> Is(m, h)
    BY <1>1, LiveIs
  <1> DEFINE fits == {h \in Live(m) : /\ m.chunks[h].bin >= BinNumForSize(n)
                                      /\ FreedInTime(m.chunks[h], before)
                                      /\ m.chunks[h].size >= n}
             h == CHOOSE g \in fits : \A f \in fits :
                    \/ m.chunks[g].bin < m.chunks[f].bin
                    \/ m.chunks[g].bin = m.chunks[f].bin /\
                         (m.chunks[g].size < m.chunks[f].size \/
                           (m.chunks[g].size = m.chunks[f].size /\ m.chunks[g].ptr <= m.chunks[f].ptr))
             m1 == RemoveFreeChunkFromBin(m, h)
             m2 == IF Splits(m.chunks[h].size, n) THEN SplitChunk(m1, h, n) ELSE m1
  <1>3. y = IF fits = {} THEN [m |-> m, ptr |-> Null]
            ELSE [m |-> [m2 EXCEPT !.chunks[h].used = TRUE, !.in_use = @ + m2.chunks[h].size],
                  ptr |-> m2.chunks[h].ptr]
    BY DEF FindChunkPtr
  <1>4. BinNumForSize(n) \in Int /\ BinNumForSize(n) >= 0
    BY BinFacts, BFCAssumption
  <1>5. ASSUME NEW g \in fits
        PROVE  /\ g \in Handles(m) /\ Is(m, g) /\ m.chunks[g].bin >= 0 /\ ~m.chunks[g].used
               /\ FreedInTime(m.chunks[g], before) /\ m.chunks[g].size >= n
    <2>1. Is(m, g) /\ g \in Handles(m) /\ m.chunks[g].bin >= BinNumForSize(n)
      BY <1>2 DEF Is
    <2>2. m.chunks[g].bin \in Int
      BY <1>1, <2>1, Members
    <2>3. m.chunks[g].bin >= 0 /\ m.chunks[g].bin # NoBin
      BY <1>4, <2>1, <2>2 DEF NoBin
    <2> QED
      BY <1>1, <2>1, <2>3 DEF Binned
  <1>6. CASE fits = {}
    <2>1. y.m = m /\ y.ptr = Null
      <3> HIDE DEF fits, h, m1, m2
      <3> QED
        BY <1>3, <1>6
    <2>2. ASSUME NEW g, Is(m, g), ~m.chunks[g].used, FreedInTime(m.chunks[g], before)
          PROVE  m.chunks[g].size < n
      <3>1. g \in Handles(m) /\ g # NoHandle /\ m.chunks[g].size \in Nat
        BY <1>1, <2>2, Members DEF Is
      <3>2. m.chunks[g].bin = BinNumForSize(m.chunks[g].size)
        BY <1>1, <2>2, <3>1 DEF Binned
      <3>3. ASSUME m.chunks[g].size >= n PROVE m.chunks[g].bin >= BinNumForSize(n)
        <4>1. BinNumForSize(n) <= BinNumForSize(m.chunks[g].size)
          BY <3>1, <3>3, BinFacts
        <4>2. BinNumForSize(m.chunks[g].size) \in Int
          BY <3>1, BinFacts, BFCAssumption
        <4> QED
          BY <1>4, <3>2, <4>1, <4>2
      <3> QED
        BY <1>2, <1>6, <2>2, <3>1, <3>3
    <2> QED
      BY <2>1, <2>2
  <1>7. CASE fits # {}
    <2> HIDE DEF fits
    <2>1. h \in fits
      <3>1. \A g \in fits : g \in Handles(m) /\ m.chunks[g].bin >= 0
        BY <1>5
      <3> QED
        BY <1>1, <1>7, <3>1, BestFit
    <2> HIDE DEF h
    <2>2. /\ h \in Handles(m) /\ Is(m, h) /\ ~m.chunks[h].used
          /\ FreedInTime(m.chunks[h], before) /\ m.chunks[h].size >= n /\ m.chunks[h].size \in Nat
      BY <1>1, <1>5, <2>1, Members
    <2>3. /\ Good(m1, h) /\ Is(m1, h) /\ ~m1.chunks[h].used /\ Coarser(m, m1)
          /\ m1.timestamped = m.timestamped /\ m1.chunks[h].size = m.chunks[h].size
          /\ Merged(m, NoHandle) => Merged(m1, NoHandle)
      BY <2>2, RemoveStep DEF OutOfBin
    <2>4. m1.chunks[h].ptr = m.chunks[h].ptr
      BY <2>2, <2>3 DEF Coarser
    <2>5. Kept(m, m1)
      BY <2>3, CoarserKept
    <2> HIDE DEF m1
    <2>6. /\ Good(m2, h) /\ Is(m2, h) /\ ~m2.chunks[h].used /\ Kept(m, m2)
          /\ n <= m2.chunks[h].size /\ m2.chunks[h].size <= m.chunks[h].size
          /\ m2.chunks[h].ptr = m.chunks[h].ptr
          /\ Merged(m, NoHandle) => Merged(m2, h)
      <3>1. CASE Splits(m.chunks[h].size, n)
        <4>1. n < m1.chunks[h].size
          BY <2>2, <2>3, <3>1, BFCAssumption DEF Splits
        <4>2. PICK w : w = SplitChunk(m1, h, n)
          OBVIOUS
        <4>3. /\ Good(w, h) /\ Is(w, h) /\ ~w.chunks[h].used /\ Kept(m1, w)
              /\ w.chunks[h].size = n /\ w.chunks[h].ptr = m1.chunks[h].ptr
              /\ Merged(m1, NoHandle) => Merged(w, h)
          BY <2>3, <4>1, <4>2, SplitStep
        <4>4. m2 = w
          BY <3>1, <4>2
        <4>5. Kept(m, w)
          BY <2>5, <4>3, KeptTwice
        <4> HIDE DEF m2
        <4> QED
          BY <2>2, <2>3, <2>4, <4>3, <4>4, <4>5
      <3>2. CASE ~Splits(m.chunks[h].size, n)
        <4>1. m2 = m1
          BY <3>2
        <4>2. \A g : Is(m1, g) => g # NoHandle
          BY <2>3, Members DEF Good, Is
        <4>3. Merged(m1, NoHandle) => Merged(m1, h)
          BY <4>2 DEF Merged, Settled
        <4> HIDE DEF m2
        <4> QED
          BY <2>2, <2>3, <2>4, <2>5, <4>1, <4>3
      <3> QED
        BY <3>1, <3>2
    <2> HIDE DEF m2
    <2>7. PICK w : w = [m2 EXCEPT !.chunks[h].used = TRUE, !.in_use = @ + m2.chunks[h].size]
      OBVIOUS
    <2>8. y.m = w /\ y.ptr = m.chunks[h].ptr
      BY <1>3, <1>7, <2>6, <2>7
    <2>9. /\ Good(w, NoHandle) /\ SameButUse(m2, w, h) /\ w.chunks[h].used /\ w.chunks[h].freed = m2.chunks[h].freed
          /\ w.gc = m2.gc /\ w.timed = m2.timed /\ w.frontier = m2.frontier
          /\ \A g : Is(w, g) <=> Is(m2, g)
      <3>1. PICK v, f : v = m2 /\ f = h
        OBVIOUS
      <3>2. Good(v, f) /\ Is(v, f) /\ ~v.chunks[f].used
        BY <2>6, <3>1
      <3>3. w = [v EXCEPT !.chunks[f].used = TRUE, !.in_use = @ + v.chunks[f].size]
        BY <2>7, <3>1
      <3>4. UsedTo(v, w, f)
        BY ONLY <3>2, <3>3, UseStep
      <3> QED
        BY <3>1, <3>4 DEF UsedTo
    <2>10. h \in Handles(m2) /\ Handles(w) = Handles(m2) /\ Handles(m) \subseteq Handles(m2)
      BY <2>6, <2>9 DEF Is, SameButUse, Kept
    <2>11. ASSUME NEW F \in Times, Timely(m2, F) PROVE Timely(w, F)
      <3>1. Stamped(w, F)
        BY <2>9, <2>11 DEF Timely, Stamped, SameButUse, Covers, Fin
      <3> QED
        BY <2>9, <2>11, <3>1 DEF Timely, Fresh, SameButUse
    <2>12. SameMode(m, w)
      BY <2>6, <2>9, <2>11 DEF Kept, SameMode, SameButUse
    <2>13. \A g \in Handles(w) : w.chunks[g].used => g = h \/ (g \in Handles(m) /\ m.chunks[g].used)
      BY <2>6, <2>9 DEF Kept, SameButUse
    <2>14. \A g \in Handles(m) : m.chunks[g].used => SameBlock(m, w, g)
      <3>1. ASSUME NEW g \in Handles(m), m.chunks[g].used PROVE SameBlock(m, w, g)
        <4>1. g # h /\ SameBlock(m, m2, g) /\ w.chunks[g] = m2.chunks[g]
          BY <2>2, <2>6, <2>9, <2>10, <3>1 DEF Kept, SameButUse
        <4> QED
          BY <4>1 DEF SameBlock
      <3> QED
        BY <3>1
    <2>15. w.chunks[h].ptr = m.chunks[h].ptr /\ w.chunks[h].size = m2.chunks[h].size
      BY <2>6, <2>9, <2>10 DEF SameButUse
    <2>16. Taken(m, w, h, n, before)
      BY <2>2, <2>6, <2>9, <2>10, <2>12, <2>13, <2>14, <2>15 DEF Taken
    <2>17. Tidy(m, w)
      <3>1. m2 \in MemType /\ Regions(m2) /\ Linked(m2)
        BY <2>6 DEF Good
      <3>2. PICK v : v = m2
        OBVIOUS
      <3>3. Merged(v, h) => Merged(w, NoHandle)
        BY ONLY <2>9, <3>1, <3>2, UseMerged
      <3> QED
        BY <2>6, <2>12, <3>2, <3>3 DEF Tidy, Idle, SameMode
    <2> QED
      BY <2>8, <2>9, <2>16, <2>17
  <1> QED
    BY <1>6, <1>7

--------------------------------------------------------------------------------
(* New regions *)

(* The region r is added, with the one chunk k, which is free. *)
NewChunk(w, k, r) ==
  /\ w.chunks[k].ptr = r.ptr /\ w.chunks[k].size = r.size /\ w.chunks[k].used = FALSE
  /\ w.chunks[k].prev = NoHandle /\ w.chunks[k].next = NoHandle
  /\ w.chunks[k].bin = BinNumForSize(r.size) /\ w.chunks[k].freed = 0

SameAll(m, w, g) ==
  SameChunk(m, w, g) /\ w.chunks[g].bin = m.chunks[g].bin /\ w.chunks[g].freed = m.chunks[g].freed

AddedTo(m, w, k, r) ==
  /\ w \in MemType /\ Handles(w) = Handles(m) \cup {k} /\ k # NoHandle /\ ~Is(m, k)
  /\ \A a \in Addresses : w.handle[a] = IF a = r.ptr THEN k ELSE m.handle[a]
  /\ \A g \in Handles(m) : g # k => SameAll(m, w, g)
  /\ NewChunk(w, k, r)
  /\ w.regions = m.regions \cup {r} /\ w.total = m.total + r.size /\ w.in_use = m.in_use
  /\ w.gc = m.gc /\ w.timed = m.timed /\ w.frontier = m.frontier /\ w.hung = m.hung
  /\ w.timestamped = m.timestamped
  /\ \A i \in 1 .. Len(w.spare) : w.spare[i] \in Handles(m) /\ ~Is(m, w.spare[i]) /\ w.spare[i] # k
  /\ \A i, j \in 1 .. Len(w.spare) : w.spare[i] = w.spare[j] => i = j
  /\ \A i \in 1 .. Len(w.timestamped) : w.timestamped[i] \in Handles(m)

(* What Extend does to the members once it has memory. *)
LEMMA AddFacts ==
  ASSUME NEW m \in MemType, Filed(m), NEW p \in Addresses, NEW n \in Nat, NEW curr \in Nat, NEW bp \in BOOLEAN,
         NEW v, v = [m EXCEPT !.curr = curr, !.backpedal = bp, !.total = m.total + n,
                              !.regions = m.regions \cup {[ptr |-> p, size |-> n]}],
         NEW c, c = [ptr |-> p, size |-> n, used |-> FALSE, prev |-> NoHandle,
                     next |-> NoHandle, bin |-> NoBin, freed |-> 0],
         NEW w, w = InsertFreeChunkIntoBin(AllocateChunk(v, c), NextHandle(v))
  PROVE  AddedTo(m, w, NextHandle(m), [ptr |-> p, size |-> n])
  <1>1. PICK r : r = [ptr |-> p, size |-> n]
    OBVIOUS
  <1>2. r \in [ptr : Addresses, size : Nat] /\ r.ptr = p /\ r.size = n
    BY <1>1
  <1>3. m.total \in Nat /\ m.regions \in SUBSET [ptr : Addresses, size : Nat]
    BY Members
  <1>4. /\ v \in MemType /\ v.chunks = m.chunks /\ v.handle = m.handle /\ v.spare = m.spare
        /\ v.timestamped = m.timestamped /\ v.gc = m.gc /\ v.timed = m.timed /\ v.frontier = m.frontier
        /\ v.hung = m.hung /\ v.in_use = m.in_use
        /\ v.regions = m.regions \cup {r} /\ v.total = m.total + n
    <2>1. m.total + n \in Nat /\ m.regions \cup {r} \in SUBSET [ptr : Addresses, size : Nat]
      BY <1>2, <1>3
    <2>2. v = [m EXCEPT !.curr = curr, !.backpedal = bp, !.total = m.total + n, !.regions = m.regions \cup {r}]
      BY <1>1
    <2> QED
      BY ONLY <2>1, <2>2, m \in MemType, curr \in Nat, bp \in BOOLEAN DEF MemType
  <1>5. Filed(v) /\ NextHandle(v) = NextHandle(m) /\ Handles(v) = Handles(m) /\ \A g : Is(v, g) <=> Is(m, g)
    BY SMTT(30), <1>4 DEF Filed, Handles, Is, NextHandle
  <1>6. /\ c \in ChunkType /\ c.ptr = p /\ c.size = n /\ c.used = FALSE /\ c.prev = NoHandle
        /\ c.next = NoHandle /\ c.bin = NoBin /\ c.freed = 0
    BY DEF ChunkType, NoHandle, NoBin
  <1>7. PICK k, u : k = NextHandle(m) /\ u = AllocateChunk(v, c)
    OBVIOUS
  <1>8. AllocatedTo(v, u, k, c)
    BY ONLY <1>4, <1>5, <1>6, <1>7, AllocateFacts
  <1>9. /\ ~Is(m, k) /\ k # NoHandle
        /\ \A i \in 1 .. Len(u.spare) : u.spare[i] \in Handles(m) /\ ~Is(m, u.spare[i]) /\ u.spare[i] # k
        /\ \A i, j \in 1 .. Len(u.spare) : u.spare[i] = u.spare[j] => i = j
        /\ \A i \in 1 .. Len(u.timestamped) : u.timestamped[i] \in Handles(m)
    BY <1>4, <1>5, <1>6, <1>8, AllocateFiled
  <1>10. /\ u \in MemType /\ SameRest(v, u) /\ u.timestamped = m.timestamped
         /\ Handles(u) = Handles(m) \cup {k} /\ k \in Handles(u)
         /\ \A a \in Addresses : u.handle[a] = IF a = p THEN k ELSE m.handle[a]
         /\ u.chunks[k] = c /\ \A g \in Handles(m) : g # k => u.chunks[g] = m.chunks[g]
    BY <1>4, <1>5, <1>6, <1>8 DEF AllocatedTo
  <1>11. PICK b : b = BinNumForSize(n)
    OBVIOUS
  <1>12. b \in Int /\ w = [u EXCEPT !.chunks[k].bin = b]
    <2>1. w = InsertFreeChunkIntoBin(u, k)
      BY <1>5, <1>7
    <2>2. b = BinNumForSize(u.chunks[k].size) /\ b \in Int
      BY <1>6, <1>10, <1>11, BinFacts
    <2> QED
      BY <2>1, <2>2 DEF InsertFreeChunkIntoBin
  <1>13. BinSet(u, w, k, b)
    <2>1. u \in MemType /\ k \in Handles(u)
      BY <1>10
    <2> QED
      BY ONLY <1>12, <2>1, PutBin
  <1>14. /\ w \in MemType /\ Handles(w) = Handles(m) \cup {k} /\ w.handle = u.handle /\ w.spare = u.spare
         /\ w.timestamped = u.timestamped /\ SameRest(u, w)
         /\ \A g \in Handles(u) : /\ SameChunk(u, w, g) /\ w.chunks[g].freed = u.chunks[g].freed
                                  /\ w.chunks[g].bin = IF g = k THEN b ELSE u.chunks[g].bin
    BY <1>10, <1>13 DEF BinSet, SamePlaces
  <1>15. NewChunk(w, k, r)
    <2>1. SameChunk(u, w, k) /\ w.chunks[k].freed = u.chunks[k].freed /\ w.chunks[k].bin = b /\ u.chunks[k] = c
      BY ONLY <1>10, <1>14
    <2> QED
      BY ONLY <1>2, <1>6, <1>11, <2>1 DEF NewChunk, SameChunk
  <1>16. \A g \in Handles(m) : g # k => SameAll(m, w, g)
    BY ONLY <1>10, <1>14 DEF SameAll, SameChunk
  <1>17. /\ w.regions = m.regions \cup {r} /\ w.total = m.total + n /\ w.in_use = m.in_use
         /\ w.gc = m.gc /\ w.timed = m.timed /\ w.frontier = m.frontier /\ w.hung = m.hung
    BY <1>4, <1>10, <1>14 DEF SameRest
  <1>18. AddedTo(m, w, k, r)
    BY ONLY <1>2, <1>9, <1>10, <1>14, <1>15, <1>16, <1>17 DEF AddedTo
  <1> QED
    BY ONLY <1>1, <1>7, <1>18

(* The bytes of the regions are on the device. *)
LEMMA RegionBytes ==
  ASSUME NEW m \in MemType, Regions(m)
  PROVE  /\ \A S \in SUBSET m.regions : Bytes(S) \subseteq Addresses /\ IsFiniteSet(Bytes(S)) /\ Cardinality(Bytes(S)) \in Nat
         /\ \A r \in m.regions, a \in Int : a \in r.ptr .. r.ptr + r.size - 1 <=> Holds(r, a)
  <1>1. \A r \in m.regions : r.ptr \in Nat /\ r.size \in Nat /\ r.ptr + r.size <= DeviceSize
    BY Members DEF Regions, RegionEnd
  <1>2. ASSUME NEW S \in SUBSET m.regions PROVE Bytes(S) \subseteq Addresses
    BY <1>1, BFCAssumption DEF Bytes, Addresses
  <1>3. IsFiniteSet(Addresses)
    BY FS_Interval, BFCAssumption DEF Addresses
  <1>4. \A S \in SUBSET m.regions : IsFiniteSet(Bytes(S)) /\ Cardinality(Bytes(S)) \in Nat
    BY <1>2, <1>3, FS_Subset, FS_CardinalityType
  <1>5. \A r \in m.regions, a \in Int : a \in r.ptr .. r.ptr + r.size - 1 <=> Holds(r, a)
    BY <1>1 DEF Holds, RegionEnd
  <1> QED
    BY <1>2, <1>4, <1>5

(* A region that is apart from the others, and its chunk, keep the invariant. *)
LEMMA AddKeeps ==
  ASSUME NEW m, Good(m, NoHandle), NEW r \in [ptr : Addresses, size : Nat], r.size > 0, RegionEnd(r) <= DeviceSize,
         \A s \in m.regions : RegionEnd(r) <= s.ptr \/ RegionEnd(s) <= r.ptr,
         m.total + r.size <= MemoryLimit, NEW w, NEW k, AddedTo(m, w, k, r)
  PROVE  Good(w, NoHandle) /\ Kept(m, w) /\ Is(w, k) /\ Tidy(m, w)
  <1>1. m \in MemType /\ Filed(m) /\ Regions(m) /\ Linked(m) /\ Tiled(m) /\ Binned(m, NoHandle) /\ Counted(m)
    BY DEF Good
  <1>2. /\ w \in MemType /\ Handles(w) = Handles(m) \cup {k} /\ k # NoHandle /\ ~Is(m, k)
        /\ NewChunk(w, k, r) /\ w.regions = m.regions \cup {r}
    BY DEF AddedTo
  <1>3. r.ptr \in Nat /\ r.size \in Nat /\ RegionEnd(r) \in Nat /\ r.ptr \in Addresses
    BY BFCAssumption DEF RegionEnd, Addresses
  <1>4. \A s \in m.regions : s.ptr \in Nat /\ s.size \in Nat /\ RegionEnd(s) \in Nat
    BY <1>1, Members DEF RegionEnd
  <1>5. \A g : Is(m, g) => g \in Handles(m) /\ g # k /\ SameAll(m, w, g)
    BY <1>2 DEF AddedTo, Is
  <1>6. ASSUME NEW g, Is(m, g)
        PROVE  /\ m.chunks[g].ptr \in Int /\ Fin(m, g) \in Int /\ m.chunks[g].size \in Nat /\ m.chunks[g].size > 0
               /\ \E s \in m.regions : Holds(s, m.chunks[g].ptr) /\ Fin(m, g) <= RegionEnd(s)
    BY <1>1, <1>6, ChunkInRegion
  <1>7. ASSUME NEW g, Is(m, g)
        PROVE  /\ Fin(m, g) <= r.ptr \/ RegionEnd(r) <= m.chunks[g].ptr
               /\ m.chunks[g].ptr # r.ptr /\ ~Holds(r, m.chunks[g].ptr)
    <2>1. PICK s \in m.regions : Holds(s, m.chunks[g].ptr) /\ Fin(m, g) <= RegionEnd(s)
      BY <1>6, <1>7
    <2>2. RegionEnd(r) <= s.ptr \/ RegionEnd(s) <= r.ptr
      OBVIOUS
    <2>3. m.chunks[g].ptr < Fin(m, g)
      BY <1>6, <1>7 DEF Fin
    <2>4. s.ptr <= m.chunks[g].ptr /\ m.chunks[g].ptr < RegionEnd(s)
      BY <2>1 DEF Holds
    <2>5. r.ptr < RegionEnd(r)
      BY <1>3 DEF RegionEnd
    <2> QED
      BY <1>3, <1>4, <1>6, <1>7, <2>1, <2>2, <2>3, <2>4, <2>5 DEF Holds
  <1>8. ASSUME NEW g PROVE Is(w, g) <=> Is(m, g) \/ g = k
    <2>1. CASE g = k
      BY <1>2, <1>3, <2>1 DEF Is, AddedTo, NewChunk
    <2>2. CASE g # k
      <3>1. g \in Handles(w) <=> g \in Handles(m)
        BY <1>2, <2>2
      <3>2. CASE g \in Handles(m)
        <4>1. w.chunks[g].ptr = m.chunks[g].ptr /\ m.chunks[g].ptr \in Addresses
          BY <1>1, <2>2, <3>2, Members DEF AddedTo, SameAll, SameChunk
        <4>2. w.handle[m.chunks[g].ptr] = IF m.chunks[g].ptr = r.ptr THEN k ELSE m.handle[m.chunks[g].ptr]
          BY <4>1 DEF AddedTo
        <4> QED
          BY <1>7, <2>2, <3>1, <3>2, <4>1, <4>2 DEF Is
      <3> QED
        BY <2>2, <3>1, <3>2 DEF Is
    <2> QED
      BY <2>1, <2>2
  <1>9. ASSUME NEW g, Is(m, g)
        PROVE  /\ Fin(w, g) = Fin(m, g) /\ w.chunks[g].ptr = m.chunks[g].ptr /\ w.chunks[g].size = m.chunks[g].size
               /\ w.chunks[g].next = m.chunks[g].next /\ w.chunks[g].prev = m.chunks[g].prev
               /\ w.chunks[g].used = m.chunks[g].used /\ w.chunks[g].freed = m.chunks[g].freed
    BY <1>5, <1>9 DEF Fin, SameAll, SameChunk
  <1>10. Fin(w, k) = RegionEnd(r) /\ w.chunks[k].ptr = r.ptr /\ w.chunks[k].size = r.size /\ ~w.chunks[k].used
         /\ w.chunks[k].prev = NoHandle /\ w.chunks[k].next = NoHandle /\ w.chunks[k].freed = 0
    BY <1>2 DEF NewChunk, Fin, RegionEnd
  <1>11. Filed(w)
    <2>1. ASSUME NEW a \in Addresses, w.handle[a] # NoHandle
          PROVE  w.handle[a] \in Handles(w) /\ w.chunks[w.handle[a]].ptr = a
      <3>1. CASE a = r.ptr
        BY <1>2, <1>10, <3>1 DEF AddedTo
      <3>2. CASE a # r.ptr
        <4>1. w.handle[a] = m.handle[a]
          BY <3>2 DEF AddedTo
        <4>2. m.handle[a] \in Handles(m) /\ m.chunks[m.handle[a]].ptr = a
          BY <1>1, <2>1, <4>1 DEF Filed
        <4>3. Is(m, m.handle[a])
          BY <4>2 DEF Is
        <4> QED
          BY <1>2, <1>9, <4>1, <4>2, <4>3
      <3> QED
        BY <3>1, <3>2
    <2>2. \A i \in 1 .. Len(w.spare) : w.spare[i] \in Handles(w) /\ ~Is(w, w.spare[i])
      BY <1>2, <1>8 DEF AddedTo
    <2>3. \A i \in 1 .. Len(w.timestamped) : w.timestamped[i] \in Handles(w)
      BY <1>2 DEF AddedTo
    <2>4. \A i, j \in 1 .. Len(w.spare) : w.spare[i] = w.spare[j] => i = j
      BY DEF AddedTo
    <2> QED
      BY <2>1, <2>2, <2>3, <2>4 DEF Filed
  <1>12. Regions(w)
    <2>1. ASSUME NEW s \in m.regions PROVE w.handle[s.ptr] # NoHandle /\ s.ptr \in Addresses
      <3>1. s.ptr \in Addresses /\ m.handle[s.ptr] # NoHandle
        BY <1>1, Members DEF Regions
      <3> QED
        BY <1>2, <3>1 DEF AddedTo
    <2>2. w.handle[r.ptr] # NoHandle
      BY <1>2, <1>3 DEF AddedTo
    <2>3. \A s \in w.regions : s.size > 0 /\ RegionEnd(s) <= DeviceSize /\ w.handle[s.ptr] # NoHandle
      BY <1>1, <1>2, <2>1, <2>2 DEF Regions
    <2>4. Apart(w)
      BY <1>1, <1>2 DEF Regions, Apart
    <2> QED
      BY <2>3, <2>4 DEF Regions
  <1>13. Linked(w)
    <2> SUFFICES ASSUME NEW g \in Handles(w), Is(w, g)
                 PROVE  /\ w.chunks[g].size > 0
                        /\ \E s \in w.regions : Holds(s, w.chunks[g].ptr)
                        /\ \A s \in w.regions : Holds(s, w.chunks[g].ptr) => NextLink(w, g, s) /\ PrevLink(w, g, s)
      BY DEF Linked
    <2>1. CASE g = k
      <3>1. Holds(r, w.chunks[g].ptr)
        BY <1>3, <1>10, <2>1 DEF Holds, RegionEnd
      <3>2. \A s \in m.regions : ~Holds(s, r.ptr)
        <4>1. r.ptr < RegionEnd(r)
          BY <1>3 DEF RegionEnd
        <4> QED
          BY <1>3, <1>4, <4>1 DEF Holds
      <3>3. NextLink(w, g, r) /\ PrevLink(w, g, r)
        BY <1>10, <2>1 DEF NextLink, PrevLink
      <3> QED
        BY <1>2, <1>10, <2>1, <3>1, <3>2, <3>3
    <2>2. CASE g # k
      <3>1. Is(m, g) /\ g \in Handles(m) /\ w.chunks[g].ptr = m.chunks[g].ptr /\ w.chunks[g].size = m.chunks[g].size
        BY <1>5, <1>8, <1>9, <2>2
      <3>2. m.chunks[g].size > 0 /\ \E s \in m.regions : Holds(s, m.chunks[g].ptr)
        BY <1>1, <3>1 DEF Linked
      <3>3. ASSUME NEW s \in m.regions, Holds(s, m.chunks[g].ptr)
            PROVE  NextLink(w, g, s) /\ PrevLink(w, g, s)
        <4>1. NextLink(m, g, s) /\ PrevLink(m, g, s)
          BY <1>1, <3>1, <3>3 DEF Linked
        <4>2. NextLink(w, g, s)
          BY <1>8, <1>9, <3>1, <4>1 DEF NextLink
        <4>3. PrevLink(w, g, s)
          BY <1>8, <1>9, <3>1, <4>1 DEF PrevLink
        <4> QED
          BY <4>2, <4>3
      <3> QED
        BY <1>2, <1>7, <3>1, <3>2, <3>3
    <2> QED
      BY <2>1, <2>2
  <1>14. Tiled(w)
    <2>1. ASSUME NEW g, NEW f, Is(w, g), Is(w, f), g # f
          PROVE  Fin(w, g) <= w.chunks[f].ptr \/ Fin(w, f) <= w.chunks[g].ptr
      <3>1. CASE g = k
        BY <1>7, <1>8, <1>9, <1>10, <2>1, <3>1
      <3>2. CASE f = k
        BY <1>7, <1>8, <1>9, <1>10, <2>1, <3>2
      <3>3. CASE g # k /\ f # k
        BY <1>1, <1>5, <1>8, <1>9, <2>1, <3>3 DEF Tiled
      <3> QED
        BY <3>1, <3>2, <3>3
    <2>2. ASSUME NEW s \in w.regions, NEW a \in Addresses, Holds(s, a)
          PROVE  \E g \in Handles(w) : Is(w, g) /\ Covers(w, g, a)
      <3>1. CASE s = r
        BY <1>2, <1>8, <1>10, <2>2, <3>1 DEF Covers, Holds
      <3>2. CASE s # r
        <4>1. PICK g \in Handles(m) : Is(m, g) /\ Covers(m, g, a)
          BY <1>1, <1>2, <2>2, <3>2 DEF Tiled
        <4> QED
          BY <1>2, <1>8, <1>9, <4>1 DEF Covers
      <3> QED
        BY <3>1, <3>2
    <2> QED
      BY <2>1, <2>2 DEF Tiled
  <1>15. UsedBytes(w) = UsedBytes(m)
    <2>1. ASSUME NEW a \in Addresses, NEW g, Is(m, g)
          PROVE  w.chunks[g].used /\ Covers(w, g, a) <=> m.chunks[g].used /\ Covers(m, g, a)
      BY <1>9, <2>1 DEF Covers
    <2>2. \A g : (Is(w, g) => g \in Handles(w)) /\ (Is(m, g) => g \in Handles(m))
      BY DEF Is
    <2> QED
      BY <1>8, <1>10, <2>1, <2>2 DEF UsedBytes
  <1>16. Counted(w)
    <2>1. PICK A, I : A = Bytes(m.regions) /\ I = r.ptr .. r.ptr + r.size - 1
      OBVIOUS
    <2>2. Bytes(w.regions) = A \cup I
      BY <1>2, <2>1 DEF Bytes
    <2>3. IsFiniteSet(A) /\ Cardinality(A) \in Nat /\ A \subseteq Addresses
      BY <1>1, <2>1, RegionBytes
    <2>4. IsFiniteSet(I) /\ Cardinality(I) = r.size
      <3>1. PICK p \in Int, q \in Int : p = r.ptr /\ q = r.ptr + r.size - 1
        BY <1>3
      <3>2. ~(p > q) /\ q - p + 1 = r.size
        BY <1>3, <3>1
      <3> QED
        BY <2>1, <3>1, <3>2, FS_Interval
    <2>5. A \cap I = {}
      <3> SUFFICES ASSUME NEW a \in A, a \in I PROVE FALSE
        OBVIOUS
      <3>1. a \in Int /\ Holds(r, a)
        BY <1>3, <2>1, <2>3, BFCAssumption DEF Addresses, Holds, RegionEnd
      <3>2. PICK s \in m.regions : a \in s.ptr .. s.ptr + s.size - 1
        BY <2>1 DEF Bytes
      <3>3. Holds(s, a)
        BY <1>1, <3>1, <3>2, RegionBytes
      <3> QED
        BY <1>3, <1>4, <3>1, <3>3 DEF Holds
    <2>6. Cardinality(A \cup I) = Cardinality(A) + Cardinality(I) - Cardinality(A \cap I)
      BY <2>3, <2>4, FS_Union
    <2>7. Cardinality(A \cup I) = m.total + r.size
      <3>1. Cardinality(A \cap I) = 0
        BY <2>5, FS_EmptySet
      <3>2. Cardinality(A) = m.total /\ m.total \in Nat
        BY <1>1, <2>1, Members DEF Counted
      <3> QED
        BY ONLY <1>3, <2>4, <2>6, <3>1, <3>2
    <2> QED
      BY <1>1, <1>15, <2>2, <2>7 DEF AddedTo, Counted
  <1>17. Binned(w, NoHandle)
    <2>1. ASSUME NEW g \in Handles(w)
          PROVE  /\ w.chunks[g].used => Is(w, g) /\ w.chunks[g].bin = NoBin
                 /\ w.chunks[g].bin # NoBin => Is(w, g)
                 /\ Is(w, g) /\ ~w.chunks[g].used /\ g # NoHandle => w.chunks[g].bin = BinNumForSize(w.chunks[g].size)
                 /\ g = NoHandle => w.chunks[g].bin = NoBin
      <3>1. CASE g = k
        BY <1>2, <1>8, <3>1 DEF NewChunk
      <3>2. CASE g # k
        <4>1. g \in Handles(m) /\ SameAll(m, w, g) /\ (Is(w, g) <=> Is(m, g))
          BY <1>2, <1>8, <3>2 DEF AddedTo
        <4> QED
          BY <1>1, <4>1 DEF Binned, SameAll, SameChunk
      <3> QED
        BY <3>1, <3>2
    <2> QED
      BY <2>1 DEF Binned
  <1>18. Good(w, NoHandle)
    BY <1>2, <1>11, <1>12, <1>13, <1>14, <1>16, <1>17 DEF Good
  <1>19. ASSUME NEW F \in Times, Timely(m, F) PROVE Timely(w, F)
    <2>1. Fresh(w, F)
      BY <1>2, <1>19 DEF Timely, Fresh, AddedTo
    <2>2. Stamped(w, F)
      <3> SUFFICES ASSUME NEW g, Is(w, g), ~w.chunks[g].used, NEW a \in Addresses, Covers(w, g, a)
                   PROVE  F[a] <= w.chunks[g].freed \/ F[a] < w.frontier
        BY DEF Stamped
      <3>1. CASE g = k
        <4>1. Holds(r, a) /\ a \in Int
          BY <1>10, <3>1, BFCAssumption DEF Covers, Holds, Addresses
        <4>2. \A s \in m.regions : ~Holds(s, a)
          BY <1>3, <1>4, <4>1 DEF Holds
        <4>3. F[a] = 0
          BY <1>19, <4>2 DEF Timely, Fresh
        <4> QED
          BY <1>10, <3>1, <4>3
      <3>2. CASE g # k
        <4>1. Is(m, g) /\ Covers(m, g, a) /\ ~m.chunks[g].used /\ w.chunks[g].freed = m.chunks[g].freed /\ w.frontier = m.frontier
          BY <1>8, <1>9, <3>2 DEF Covers, AddedTo
        <4> QED
          BY <1>5, <1>19, <4>1 DEF Timely, Stamped
      <3> QED
        BY <3>1, <3>2
    <2> QED
      BY <1>19, <2>1, <2>2 DEF Timely, AddedTo
  <1>20. SameMode(m, w)
    BY <1>19 DEF SameMode, AddedTo
  <1>21. \A g \in Handles(w) : w.chunks[g].used => g \in Handles(m) /\ m.chunks[g].used
    BY <1>2, <1>10 DEF AddedTo, SameAll, SameChunk
  <1>22. \A g \in Handles(m) : m.chunks[g].used => SameBlock(m, w, g)
    <2>1. \A g \in Handles(m) : m.chunks[g].used => Is(m, g)
      BY <1>1 DEF Binned
    <2> QED
      BY <1>9, <2>1 DEF SameBlock
  <1>23. ASSUME Merged(m, NoHandle) PROVE Merged(w, NoHandle)
    <2>1. ASSUME NEW g, Is(m, g), Settled(m, g) PROVE Settled(w, g)
      <3>1. m.chunks[g].next # NoHandle => Is(m, m.chunks[g].next)
        BY <1>1, <2>1, Neighbours
      <3> QED
        BY <1>9, <2>1, <3>1 DEF Settled
    <2>2. \A g : Is(m, g) => g # NoHandle
      BY <1>1, Members DEF Is
    <2>3. ASSUME NEW g, Is(w, g) PROVE w.chunks[g].freed = 0 /\ (~w.chunks[g].used => Settled(w, g))
      <3>1. CASE g = k
        BY <1>10, <3>1 DEF Settled
      <3>2. CASE g # k
        <4>1. Is(m, g)
          BY <1>8, <2>3, <3>2
        <4>2. m.chunks[g].freed = 0 /\ (~m.chunks[g].used => Settled(m, g))
          BY <1>23, <2>2, <4>1 DEF Merged, Settled
        <4> QED
          BY <1>9, <2>1, <4>1, <4>2
      <3> QED
        BY <3>1, <3>2
    <2> QED
      BY <2>3 DEF Merged
  <1>24. Tidy(m, w)
    BY <1>20, <1>23 DEF Tidy, Idle, SameMode
  <1> QED
    BY <1>2, <1>8, <1>18, <1>20, <1>21, <1>22, <1>24 DEF Kept

--------------------------------------------------------------------------------
(* Extend *)

(* Multiplication and division by the allocation size. *)
LEMMA Multiples ==
  ASSUME NEW k \in Nat \ {0}
  PROVE  /\ \A a, b \in Nat : a <= b => k * a <= k * b
         /\ \A x, q \in Nat : x <= k * q => k * ((x + k - 1) \div k) <= k * q
         /\ \A x \in Nat : (x \div k) * k \in Nat /\ (x \div k) * k <= x /\ (x \div k) * k = k * (x \div k) /\ x \div k \in Nat
         /\ \A x, q \in Nat : k * q > (x \div k) * k => x < k * q
  <1>1. ASSUME NEW a \in Nat, NEW b \in Nat, a <= b PROVE k * a <= k * b
    <2>1. PICK d \in Nat : b = a + d
      <3>1. b - a \in Nat /\ b = a + (b - a)
        BY <1>1
      <3> QED
        BY <3>1
    <2>2. k * b = k * a + k * d /\ k * d \in Nat /\ k * a \in Nat
      BY <2>1
    <2> QED
      BY <2>2
  <1>2. ASSUME NEW x \in Nat
        PROVE  /\ x \div k \in Nat /\ (x \div k) * k \in Nat /\ (x \div k) * k <= x /\ (x \div k) * k = k * (x \div k)
               /\ x < k * ((x \div k) + 1) /\ k * (x \div k) <= x
    OBVIOUS
  <1>3. ASSUME NEW x \in Nat, NEW q \in Nat, x <= k * q PROVE k * ((x + k - 1) \div k) <= k * q
    <2>1. PICK p \in Nat : p = (x + k - 1) \div k /\ k * p <= x + k - 1
      <3>1. x + k - 1 \in Nat
        OBVIOUS
      <3> QED
        BY <1>2, <3>1
    <2>2. p <= q
      <3> SUFFICES ASSUME q + 1 <= p PROVE FALSE
        OBVIOUS
      <3>1. k * (q + 1) <= k * p /\ k * (q + 1) = k * q + k /\ k * p \in Nat /\ k * q \in Nat
        BY <1>1
      <3> QED
        BY <1>3, <2>1, <3>1
    <2> QED
      BY <1>1, <2>1, <2>2
  <1>4. ASSUME NEW x \in Nat, NEW q \in Nat, k * q > (x \div k) * k PROVE x < k * q
    <2>1. PICK p \in Nat : p = x \div k /\ x < k * (p + 1) /\ k * q > k * p
      BY <1>2, <1>4
    <2>2. p + 1 <= q
      <3> SUFFICES ASSUME q <= p PROVE FALSE
        OBVIOUS
      <3>1. k * q <= k * p /\ k * p \in Nat /\ k * q \in Nat
        BY <1>1
      <3> QED
        BY <2>1, <3>1
    <2>3. k * (p + 1) <= k * q /\ k * (p + 1) \in Nat /\ k * q \in Nat
      BY <1>1, <2>2
    <2> QED
      BY <2>1, <2>3
  <1> QED
    BY <1>1, <1>2, <1>3, <1>4

(* What the doubling stops at is a size. *)
LEMMA DoubledSize ==
  ASSUME NEW curr \in Nat, NEW rounded \in Nat
  PROVE  Doubled(curr, rounded) \in Nat
  <1>1. PICK n \in Nat : n = SizeBits
    BY BFCAssumption
  <1>2. \A x \in Nat : Twice(x) \in Nat
    <2>1. PICK e \in Nat \ {0} : e = 2^SizeBits
      BY BFCAssumption
    <2>2. \A x \in Nat : (2 * x) % e \in Nat
      OBVIOUS
    <2> QED
      BY <2>1, <2>2 DEF Twice
  <1> DEFINE Next1(x) == IF x >= rounded THEN x ELSE Twice(x)
             Def(f) == f = [k \in 0 .. n |-> IF k = 0 THEN curr ELSE IF f[k - 1] >= rounded THEN f[k - 1] ELSE Twice(f[k - 1])]
             X == CHOOSE f : Def(f)
  <1>3. \A x \in Nat : Next1(x) \in Nat
    BY <1>2
  <1>4. PICK step : step = [z \in Nat \X (1 .. n) |-> Next1(z[1])]
    OBVIOUS
  <1>5. /\ step \in [Nat \X (1 .. n) -> Nat]
        /\ \A x \in Nat, k \in 1 .. n : step[<<x, k>>] = Next1(x)
    <2> HIDE DEF Next1
    <2> QED
      BY <1>3, <1>4
  <1>6. PICK f \in [0 .. n -> Nat] : RunOf(f, curr, n, step)
    <2>1. n \in Nat /\ curr \in Nat /\ step \in [Nat \X (1 .. n) -> Nat]
      BY <1>5
    <2> QED
      BY ONLY <2>1, Iteration
  <1>7. Def(f)
    <2>1. ASSUME NEW i \in 1 .. n PROVE f[i] = Next1(f[i - 1])
      <3> HIDE DEF Next1
      <3>1. i - 1 \in 0 .. n
        BY <1>1
      <3>2. f[i - 1] \in Nat
        BY <3>1, <1>6
      <3> QED
        BY <1>5, <1>6, <3>2 DEF RunOf
    <2>2. ASSUME NEW i \in 0 .. n
          PROVE  f[i] = IF i = 0 THEN curr ELSE IF f[i - 1] >= rounded THEN f[i - 1] ELSE Twice(f[i - 1])
      BY <1>1, <1>6, <2>1 DEF RunOf
    <2> QED
      BY <1>6, <2>2
  <1>8. Def(X)
    BY <1>7
  <1>9. Doubled(curr, rounded) = X[n]
    BY <1>1 DEF Doubled
  <1> HIDE DEF X
  <1>10. X[0] = curr /\ \A i \in 1 .. n : X[i] = Next1(X[i - 1])
    BY <1>1, <1>8
  <1> HIDE DEF Def, Next1
  <1>11. X[n] \in Nat
    <2>1. PICK S : S = {i \in 0 .. n : X[i] \in Nat}
      OBVIOUS
    <2>2. 0 \in S
      BY <1>1, <1>10, <2>1
    <2>3. ASSUME NEW i \in 1 .. n, i - 1 \in S PROVE i \in S
      <3>1. X[i - 1] \in Nat /\ i \in 0 .. n
        BY <1>1, <2>1, <2>3
      <3>2. X[i] = Next1(X[i - 1])
        BY <1>10
      <3>3. Next1(X[i - 1]) \in Nat
        BY <1>3, <3>1
      <3> QED
        BY <2>1, <3>1, <3>2, <3>3
    <2>4. n \in S
      BY <1>1, <2>2, <2>3, UpTo
    <2> QED
      BY <2>1, <2>4
  <1> QED
    BY <1>9, <1>11

(* Back-pedalling never asks for more than a multiple above the size. *)
LEMMA BackpedalSize ==
  ASSUME NEW q \in Nat, NEW x \in Nat, x <= kMinAllocationSize * q
  PROVE  Backpedal(x) \in Nat /\ Backpedal(x) <= kMinAllocationSize * q
  <1>1. PICK k \in Nat \ {0}, d \in Nat \ {0}, e \in Nat : k = kMinAllocationSize /\ d = BackpedalDen /\ e = BackpedalNum /\ e <= d
    BY BFCAssumption
  <1>2. PICK y \in Nat : y = (x * e) \div d /\ y <= x
    <2>1. d * ((x * e) \div d) <= x * e /\ (x * e) \div d \in Nat /\ x * e \in Nat
      BY <1>1
    <2>2. x * e <= x * d /\ x * d = d * x
      <3>1. CASE x = 0
        BY <1>1, <3>1
      <3>2. CASE x # 0
        BY <1>1, <3>2, Multiples
      <3> QED
        BY <3>1, <3>2
    <2>3. PICK z \in Nat : z = (x * e) \div d
      BY <2>1
    <2>4. z <= x
      <3> SUFFICES ASSUME x + 1 <= z PROVE FALSE
        OBVIOUS
      <3>1. d * (x + 1) <= d * z /\ d * (x + 1) = d * x + d /\ d * z \in Nat /\ d * x \in Nat
        BY <1>1, Multiples
      <3> QED
        BY <1>1, <2>1, <2>2, <2>3, <3>1
    <2> QED
      BY <2>3, <2>4
  <1>3. y <= k * q /\ k * q \in Nat
    BY <1>1, <1>2
  <1>4. k * ((y + k - 1) \div k) <= k * q
    BY <1>2, <1>3, Multiples
  <1>5. Backpedal(x) = RoundedBytes(y)
    BY <1>1, <1>2 DEF Backpedal
  <1>6. RoundedBytes(y) = k * ((y + k - 1) \div k)
    BY <1>1 DEF RoundedBytes
  <1> QED
    BY <1>1, <1>2, <1>4, <1>5, <1>6, Rounding

(* It asks for a multiple, less than one multiple above the size, and for no *)
(* less if the size is larger.                                               *)
LEMMA BackpedalFacts ==
  ASSUME NEW x \in Nat
  PROVE  /\ Backpedal(x) \in Nat /\ Backpedal(x) <= x + kMinAllocationSize - 1
         /\ \E q \in Nat : Backpedal(x) = kMinAllocationSize * q
         /\ \A y \in Nat : x <= y => Backpedal(x) <= Backpedal(y)
  <1>1. PICK k \in Nat \ {0}, d \in Nat \ {0}, e \in Nat : k = kMinAllocationSize /\ d = BackpedalDen /\ e = BackpedalNum /\ e <= d
    BY BFCAssumption
  <1>2. ASSUME NEW z \in Nat
        PROVE  /\ z * e \in Nat /\ (z * e) \div d \in Nat
               /\ Backpedal(z) = k * (((z * e) \div d + k - 1) \div k) /\ Backpedal(z) \in Nat
               /\ \E q \in Nat : Backpedal(z) = k * q
    <2>1. z * e \in Nat /\ (z * e) \div d \in Nat
      BY <1>1
    <2>2. Backpedal(z) = RoundedBytes((z * e) \div d)
      BY <1>1 DEF Backpedal
    <2>3. RoundedBytes((z * e) \div d) = k * (((z * e) \div d + k - 1) \div k)
      BY <1>1 DEF RoundedBytes
    <2>4. RoundedBytes((z * e) \div d) \in Nat /\ \E q \in Nat : RoundedBytes((z * e) \div d) = k * q
      BY <1>1, <2>1, Rounding
    <2> QED
      BY <2>1, <2>2, <2>3, <2>4
  <1>3. \A a, b \in Nat, j \in Nat \ {0} : a <= b => a \div j <= b \div j
    OBVIOUS
  <1>4. (x * e) \div d <= x
    <2>1. x * e <= d * x /\ d * x \in Nat
      <3>1. CASE x = 0
        BY <1>1, <3>1
      <3>2. CASE x # 0
        <4>1. x * e <= x * d /\ x * d = d * x
          BY <1>1, <3>2, Multiples
        <4> QED
          BY <4>1
      <3> QED
        BY <3>1, <3>2
    <2>2. (x * e) \div d <= (d * x) \div d
      BY <1>2, <1>3, <2>1
    <2>3. (d * x) \div d = x
      OBVIOUS
    <2> QED
      BY <2>2, <2>3
  <1>5. Backpedal(x) <= x + k - 1
    <2>1. PICK z \in Nat : z = (x * e) \div d /\ z <= x
      BY <1>2, <1>4
    <2>2. z + k - 1 \in Nat
      OBVIOUS
    <2>3. k * ((z + k - 1) \div k) <= z + k - 1
      BY <2>2, Multiples
    <2>4. Backpedal(x) = k * ((z + k - 1) \div k) /\ Backpedal(x) \in Nat
      BY <1>2, <2>1
    <2> QED
      BY <2>1, <2>3, <2>4
  <1>6. ASSUME NEW y \in Nat, x <= y PROVE Backpedal(x) <= Backpedal(y)
    <2>1. x * e <= y * e
      <3>1. CASE e = 0
        BY <3>1
      <3>2. CASE e # 0
        <4>1. e * x <= e * y /\ e * x = x * e /\ e * y = y * e
          BY <1>6, <3>2, Multiples
        <4> QED
          BY <4>1
      <3> QED
        BY <3>1, <3>2
    <2>2. (x * e) \div d <= (y * e) \div d
      BY <1>2, <1>3, <2>1
    <2>3. PICK a \in Nat, b \in Nat : a = (x * e) \div d /\ b = (y * e) \div d /\ a <= b
      BY <1>2, <2>2
    <2>4. a + k - 1 \in Nat /\ b + k - 1 \in Nat /\ a + k - 1 <= b + k - 1
      BY <2>3
    <2>5. (a + k - 1) \div k <= (b + k - 1) \div k /\ (a + k - 1) \div k \in Nat /\ (b + k - 1) \div k \in Nat
      BY <1>3, <2>4
    <2>6. k * ((a + k - 1) \div k) <= k * ((b + k - 1) \div k)
      BY <2>5, Multiples
    <2> QED
      BY <1>2, <2>3, <2>6
  <1> QED
    BY <1>1, <1>2, <1>5, <1>6

(* The sizes it tries, in turn. *)
TriedBy(X, n, bytes, rounded) ==
  /\ X[0] = bytes /\ \A i \in 1 .. n : X[i] = Backpedal(X[i - 1])
  /\ \A i \in 0 .. n : X[i] \in Nat
  /\ Tried(bytes, rounded) = {t \in {X[k] : k \in 0 .. n} : t >= rounded}

(* The loop runs through them. *)
LEMMA TriedRun ==
  ASSUME NEW bytes \in Nat, NEW rounded \in Nat, NEW n, n = bytes + kMinAllocationSize
  PROVE  n \in Nat /\ n > bytes /\ \E X : TriedBy(X, n, bytes, rounded)
  <1>1. n \in Nat /\ n > bytes
    BY BFCAssumption
  <1> DEFINE Def(f) == f = [k \in 0 .. n |-> IF k = 0 THEN bytes ELSE Backpedal(f[k - 1])]
             X == CHOOSE f : Def(f)
  <1>2. \A x \in Nat : Backpedal(x) \in Nat
    BY BackpedalFacts
  <1>3. PICK step : step = [z \in Nat \X (1 .. n) |-> Backpedal(z[1])]
    OBVIOUS
  <1>4. /\ step \in [Nat \X (1 .. n) -> Nat]
        /\ \A x \in Nat, k \in 1 .. n : step[<<x, k>>] = Backpedal(x)
    BY <1>2, <1>3
  <1>5. PICK f \in [0 .. n -> Nat] : RunOf(f, bytes, n, step)
    <2>1. n \in Nat /\ bytes \in Nat /\ step \in [Nat \X (1 .. n) -> Nat]
      BY <1>1, <1>4
    <2> QED
      BY ONLY <2>1, Iteration
  <1>6. Def(f)
    <2>1. ASSUME NEW i \in 1 .. n PROVE f[i] = Backpedal(f[i - 1])
      <3>1. i - 1 \in 0 .. n
        BY <1>1
      <3>2. f[i - 1] \in Nat
        BY <3>1, <1>5
      <3> QED
        BY <1>4, <1>5, <3>2 DEF RunOf
    <2>2. ASSUME NEW i \in 0 .. n PROVE f[i] = IF i = 0 THEN bytes ELSE Backpedal(f[i - 1])
      BY <1>1, <1>5, <2>1 DEF RunOf
    <2> QED
      BY <1>5, <2>2
  <1>7. Def(X)
    BY <1>6
  <1>8. Tried(bytes, rounded) = {t \in {X[k] : k \in 0 .. n} : t >= rounded}
    BY DEF Tried
  <1> HIDE DEF X
  <1>9. X[0] = bytes /\ \A i \in 1 .. n : X[i] = Backpedal(X[i - 1])
    BY <1>1, <1>7
  <1> HIDE DEF Def
  <1>10. ASSUME NEW j \in 0 .. n PROVE X[j] \in Nat
    <2>1. PICK S : S = {i \in 0 .. n : X[i] \in Nat}
      OBVIOUS
    <2>2. 0 \in S
      BY <1>1, <1>9, <2>1
    <2>3. ASSUME NEW i \in 1 .. n, i - 1 \in S PROVE i \in S
      <3>1. i \in 0 .. n
        BY <1>1
      <3>2. X[i - 1] \in Nat
        BY <2>1, <2>3
      <3>3. X[i] = Backpedal(X[i - 1])
        BY <1>9
      <3>4. X[i] \in Nat
        BY <1>2, <3>2, <3>3
      <3> QED
        BY <2>1, <3>1, <3>4
    <2>4. j \in Nat /\ \A i \in 1 .. j : i - 1 \in S => i \in S
      BY <1>1, <2>3
    <2>5. j \in S
      BY <2>2, <2>4, UpTo
    <2> QED
      BY <2>1, <2>5
  <1> QED
    BY <1>1, <1>8, <1>9, <1>10 DEF TriedBy

(* They are large enough, and not above a multiple above the first. *)
LEMMA TriedSizes ==
  ASSUME NEW bytes \in Nat, NEW rounded \in Nat, NEW q \in Nat, bytes <= kMinAllocationSize * q
  PROVE  \A t \in Tried(bytes, rounded) : t \in Nat /\ t >= rounded /\ t <= kMinAllocationSize * q
  <1>1. PICK n : n = bytes + kMinAllocationSize
    OBVIOUS
  <1>2. PICK X : n \in Nat /\ TriedBy(X, n, bytes, rounded)
    BY <1>1, TriedRun
  <1>3. ASSUME NEW j \in 0 .. n PROVE X[j] <= kMinAllocationSize * q
    <2>1. PICK S : S = {i \in 0 .. n : X[i] <= kMinAllocationSize * q}
      OBVIOUS
    <2>2. 0 \in S
      BY <1>2, <2>1 DEF TriedBy
    <2>3. ASSUME NEW i \in 1 .. n, i - 1 \in S PROVE i \in S
      <3>1. i \in 0 .. n /\ i - 1 \in 0 .. n /\ X[i - 1] <= kMinAllocationSize * q
        BY <1>2, <2>1, <2>3
      <3>2. X[i] = Backpedal(X[i - 1]) /\ X[i - 1] \in Nat
        BY <1>2, <3>1 DEF TriedBy
      <3> QED
        BY <2>1, <3>1, <3>2, BackpedalSize
    <2>4. j \in Nat /\ \A i \in 1 .. j : i - 1 \in S => i \in S
      BY <1>2, <2>3
    <2>5. j \in S
      BY <2>2, <2>4, UpTo
    <2> QED
      BY <2>1, <2>5
  <1> QED
    BY <1>2, <1>3 DEF TriedBy

(* Unless the loop stands still it comes to a size as small as any that one  *)
(* more step would leave large enough.                                       *)
LEMMA TriedAll ==
  ASSUME NEW bytes \in Nat, NEW rounded \in Nat, bytes >= rounded, \A t \in Tried(bytes, rounded) : Backpedal(t) # t,
         NEW k \in Nat, k > 0, Backpedal(k) >= rounded
  PROVE  \E t \in Tried(bytes, rounded) : t <= k
  <1> SUFFICES ASSUME \A t \in Tried(bytes, rounded) : ~(t <= k) PROVE FALSE
    OBVIOUS
  <1>1. PICK n : n = bytes + kMinAllocationSize
    OBVIOUS
  <1>2. PICK X : n \in Nat /\ n > bytes /\ TriedBy(X, n, bytes, rounded)
    BY <1>1, TriedRun
  <1>3. /\ X[0] = bytes /\ \A i \in 1 .. n : X[i] = Backpedal(X[i - 1])
        /\ \A i \in 0 .. n : X[i] \in Nat /\ (X[i] >= rounded => X[i] \in Tried(bytes, rounded))
    BY <1>2 DEF TriedBy
  <1>4. ASSUME NEW j \in 0 .. n PROVE X[j] >= rounded /\ X[j] > k /\ Backpedal(X[j]) # X[j]
    <2>1. PICK S : S = {i \in 0 .. n : X[i] >= rounded}
      OBVIOUS
    <2>2. 0 \in S
      BY <1>2, <1>3, <2>1
    <2>3. ASSUME NEW i \in 0 .. n, i \in S PROVE X[i] > k /\ Backpedal(X[i]) # X[i] /\ X[i] \in Nat
      <3>1. X[i] \in Tried(bytes, rounded) /\ X[i] \in Nat
        BY <1>3, <2>1, <2>3
      <3> QED
        BY <3>1
    <2>4. ASSUME NEW i \in 1 .. n, i - 1 \in S PROVE i \in S
      <3>1. i \in 0 .. n /\ i - 1 \in 0 .. n
        BY <1>2
      <3>2. X[i - 1] > k /\ X[i - 1] \in Nat
        BY <2>3, <2>4, <3>1
      <3>3. PICK x \in Nat : x = X[i - 1] /\ x > k
        BY <3>2
      <3>4. \A z \in Nat : Backpedal(z) \in Nat /\ \A y \in Nat : z <= y => Backpedal(z) <= Backpedal(y)
        <4>1. ASSUME NEW z \in Nat PROVE Backpedal(z) \in Nat /\ \A y \in Nat : z <= y => Backpedal(z) <= Backpedal(y)
          BY ONLY <4>1, BackpedalFacts
        <4> QED
          BY <4>1
      <3>5. Backpedal(k) <= Backpedal(x) /\ Backpedal(k) \in Nat /\ Backpedal(x) \in Nat
        BY <3>3, <3>4
      <3>6. X[i] = Backpedal(X[i - 1])
        BY <1>3
      <3>7. X[i] >= rounded
        BY <3>3, <3>5, <3>6
      <3> QED
        BY <2>1, <3>1, <3>7
    <2>5. j \in Nat /\ \A i \in 1 .. j : i - 1 \in S => i \in S
      BY <1>2, <2>4
    <2>6. j \in S
      BY <2>2, <2>5, UpTo
    <2> QED
      BY <2>1, <2>3, <2>6
  <1>5. X[1] <= n - 1 /\ 1 \in 0 .. n /\ X[1] \in Nat
    <2>1. Backpedal(bytes) <= bytes + kMinAllocationSize - 1
      BY BackpedalFacts
    <2>2. 1 \in 1 .. n /\ 1 \in 0 .. n /\ 1 - 1 = 0
      BY <1>2
    <2>3. X[1] = Backpedal(bytes) /\ X[1] \in Nat
      BY <1>3, <2>2
    <2>4. kMinAllocationSize \in Nat
      BY BFCAssumption
    <2> QED
      BY <1>1, <2>1, <2>2, <2>3, <2>4
  <1>6. n \in {i \in 0 .. n : i >= 1 => X[i] + i <= n}
    <2>1. PICK S : S = {i \in 0 .. n : i >= 1 => X[i] + i <= n}
      OBVIOUS
    <2>2. 0 \in S
      BY <1>2, <2>1
    <2>3. ASSUME NEW i \in 1 .. n, i - 1 \in S PROVE i \in S
      <3>1. i \in 0 .. n /\ i - 1 \in 0 .. n /\ X[i] \in Nat /\ X[i - 1] \in Nat
        BY <1>2, <1>3
      <3>2. CASE i = 1
        BY <1>2, <1>5, <2>1, <3>1, <3>2
      <3>3. CASE i # 1
        <4>1. i - 1 >= 1 /\ X[i - 1] + (i - 1) <= n /\ i - 1 \in 1 .. n /\ (i - 1) - 1 \in 0 .. n
          BY <1>2, <2>1, <2>3, <3>1, <3>3
        <4>2. X[i - 1] = Backpedal(X[(i - 1) - 1]) /\ X[(i - 1) - 1] \in Nat
          BY <1>3, <4>1
        <4>3. PICK q \in Nat : X[i - 1] = kMinAllocationSize * q
          BY <4>2, BackpedalFacts
        <4>4. Backpedal(X[i - 1]) <= X[i - 1]
          BY <3>1, <4>3, BackpedalSize
        <4>5. X[i] = Backpedal(X[i - 1]) /\ Backpedal(X[i - 1]) # X[i - 1]
          BY <1>3, <1>4, <3>1
        <4>6. X[i] + i <= n
          BY <1>2, <3>1, <4>1, <4>4, <4>5
        <4> QED
          BY <2>1, <3>1, <4>6
      <3> QED
        BY <3>2, <3>3
    <2>4. n \in S
      BY <1>2, <2>2, <2>3, UpTo
    <2> QED
      BY <2>1, <2>4
  <1>7. n \in 0 .. n /\ n >= 1 /\ X[n] \in Nat /\ X[n] > k
    BY <1>2, <1>3, <1>4
  <1> QED
    BY <1>6, <1>7

(* SubAlloc gives a hole, and none for what is larger than a size it has none for. *)
LEMMA SubAllocFacts ==
  ASSUME NEW m \in MemType, NEW n \in Nat
  PROVE  /\ SubAlloc(m, n) # Null => SubAlloc(m, n) \in Holes(m, n)
         /\ \A k \in Nat : n <= k /\ SubAlloc(m, n) = Null => SubAlloc(m, k) = Null
         /\ \A w : w.regions = m.regions => SubAlloc(w, n) = SubAlloc(m, n)
         /\ \A w : w.regions = m.regions => Holes(w, n) = Holes(m, n)
         /\ SubAlloc(m, n) = Null <=> Holes(m, n) = {}
  <1>1. ASSUME NEW k \in Nat PROVE Holes(m, k) \in SUBSET Nat
    BY BFCAssumption DEF Holes, Addresses
  <1>2. ASSUME NEW k \in Nat, Holes(m, k) # {} PROVE Min(Holes(m, k)) \in Holes(m, k) /\ Min(Holes(m, k)) # Null
    <2>1. Min(Holes(m, k)) \in Holes(m, k)
      BY <1>1, <1>2, MinFacts
    <2> QED
      BY <1>1, <2>1 DEF Null
  <1>3. ASSUME NEW k \in Nat, n <= k PROVE Holes(m, k) \subseteq Holes(m, n)
    <2> SUFFICES ASSUME NEW a \in Holes(m, k) PROVE a \in Holes(m, n)
      OBVIOUS
    <2>1. /\ a \in Addresses /\ a \in Nat /\ a + k <= DeviceSize
          /\ \A r \in m.regions : a + k <= r.ptr \/ r.ptr + r.size <= a
      BY BFCAssumption DEF Holes, Addresses
    <2>2. \A r \in m.regions : r.ptr \in Nat /\ r.size \in Nat
      BY Members
    <2>3. a + n <= DeviceSize
      BY <1>3, <2>1, BFCAssumption
    <2>4. \A r \in m.regions : a + n <= r.ptr \/ r.ptr + r.size <= a
      BY <1>3, <2>1, <2>2
    <2> QED
      BY <2>1, <2>3, <2>4 DEF Holes
  <1>4. \A w : w.regions = m.regions => SubAlloc(w, n) = SubAlloc(m, n)
    BY DEF SubAlloc, Holes
  <1>5. SubAlloc(m, n) # Null => SubAlloc(m, n) \in Holes(m, n)
    BY <1>2 DEF SubAlloc
  <1>6. ASSUME NEW k \in Nat, n <= k, SubAlloc(m, n) = Null PROVE SubAlloc(m, k) = Null
    <2>1. Holes(m, n) = {}
      BY <1>2, <1>6 DEF SubAlloc
    <2>2. Holes(m, k) = {}
      BY <1>3, <1>6, <2>1
    <2> QED
      BY <2>2 DEF SubAlloc
  <1>7. \A w : w.regions = m.regions => Holes(w, n) = Holes(m, n)
    BY DEF Holes
  <1>8. SubAlloc(m, n) = Null <=> Holes(m, n) = {}
    BY <1>2 DEF SubAlloc
  <1> QED
    BY <1>4, <1>5, <1>6, <1>7, <1>8

PutAside(m, w, curr, bp, hu) == w = [m EXCEPT !.curr = curr, !.backpedal = bp, !.hung = hu]

(* Only the size of the next region, and flags, change. *)
LEMMA AsideStep ==
  ASSUME NEW m, Good(m, NoHandle), NEW curr \in Nat, NEW bp \in BOOLEAN, NEW hu \in BOOLEAN,
         NEW w, PutAside(m, w, curr, bp, hu)
  PROVE  /\ Good(w, NoHandle) /\ Kept(m, w) /\ SamePlaces(m, w) /\ Tidy(m, w)
         /\ w.total = m.total /\ w.curr = curr /\ w.hung = hu
  <1>1. m \in MemType
    BY DEF Good
  <1>2. /\ w \in MemType /\ w.chunks = m.chunks /\ w.handle = m.handle /\ w.spare = m.spare
        /\ w.timestamped = m.timestamped /\ w.regions = m.regions /\ w.total = m.total /\ w.in_use = m.in_use
        /\ w.gc = m.gc /\ w.timed = m.timed /\ w.frontier = m.frontier /\ w.curr = curr /\ w.hung = hu
    BY <1>1 DEF MemType, PutAside
  <1>3. Handles(w) = Handles(m) /\ \A g : SameChunk(m, w, g)
    BY <1>2 DEF Handles, SameChunk
  <1>4. SamePlaces(m, w)
    BY <1>2, <1>3 DEF SamePlaces
  <1>5. /\ \A g : Is(w, g) <=> Is(m, g)
        /\ UsedBytes(w) = UsedBytes(m) /\ Regions(w) /\ Linked(w) /\ Tiled(w)
    BY <1>1, <1>2, <1>4, PlacesKept DEF Good
  <1>6. Filed(w)
    BY ONLY <1>2, <1>3, <1>5, Good(m, NoHandle) DEF Good, Filed
  <1>7. Binned(w, NoHandle)
    BY ONLY <1>2, <1>3, <1>5, Good(m, NoHandle) DEF Good, Binned
  <1>8. Counted(w)
    BY ONLY <1>2, <1>5, Good(m, NoHandle) DEF Good, Counted
  <1>9. ASSUME NEW F \in Times, Timely(m, F) PROVE Timely(w, F)
    BY ONLY <1>2, <1>3, <1>5, <1>9 DEF Timely, Stamped, Fresh, Covers, Fin
  <1>10. SameMode(m, w)
    BY <1>2, <1>9 DEF SameMode
  <1>11. Kept(m, w)
    BY ONLY <1>2, <1>3, <1>10 DEF Kept, SameBlock
  <1>12. Tidy(m, w)
    BY ONLY <1>2, <1>5 DEF Tidy, Idle, Merged, Settled
  <1> QED
    BY <1>2, <1>4, <1>5, <1>6, <1>7, <1>8, <1>11, <1>12 DEF Good

(* The device has no room for the region that is asked for, nor for any size *)
(* that a step of back-pedalling leaves large enough.                        *)
NoRoom(m, n) == n <= Available(m) => Holes(m, Min({m.curr, Available(m)})) = {}
NoSize(m, n) == n <= Available(m) => \A k \in 1 .. DeviceSize : Backpedal(k) >= n => Holes(m, k) = {}
Refused(m, w, n) == w.hung \/ (NoRoom(w, n) /\ (~m.backpedal => NoSize(w, n)))

Extended(m, y, n) ==
  /\ Good(y.m, NoHandle) /\ Kept(m, y.m) /\ y.ok \in BOOLEAN /\ Tidy(m, y.m)
  /\ y.ok => \E h : /\ Is(y.m, h) /\ ~y.m.chunks[h].used /\ y.m.chunks[h].freed = 0
                    /\ y.m.chunks[h].size >= n
  /\ ~y.ok => SamePlaces(m, y.m) /\ Refused(m, y.m, n)

(* Extend adds a region with a chunk that fits, or nothing. *)
LEMMA ExtendStep ==
  ASSUME NEW m, Good(m, NoHandle), NEW n \in Nat, n > 0, NEW q \in Nat, n = kMinAllocationSize * q,
         NEW y, y = Extend(m, n)
  PROVE  Extended(m, y, n)
  <1>1. m \in MemType /\ Filed(m) /\ m.total <= MemoryLimit
    BY DEF Good, Counted
  <1>2. /\ m.total \in Nat /\ m.curr \in Nat /\ MemoryLimit \in Nat /\ m.backpedal \in BOOLEAN /\ m.hung \in BOOLEAN
    BY <1>1, Members, BFCAssumption DEF MemType
  <1> DEFINE available == Available(m)
             curr == Doubled(m.curr, n)
             bytes == Min({curr, available})
             direct == SubAlloc(m, bytes) # Null
             tried == {t \in Tried(bytes, n) : SubAlloc(m, t) # Null}
             stuck == \E t \in Tried(bytes, n) : Backpedal(t) = t /\ \A k \in tried : k < t
             got == IF direct THEN bytes ELSE IF m.backpedal \/ tried = {} THEN 0 ELSE Max(tried)
             chunk == [ptr |-> SubAlloc(m, got), size |-> got, used |-> FALSE, prev |-> NoHandle,
                       next |-> NoHandle, bin |-> NoBin, freed |-> 0]
             m1 == [m EXCEPT !.curr = curr, !.backpedal = @ \/ ~direct]
             m2 == [m1 EXCEPT !.curr = IF n <= m.curr THEN Twice(@) ELSE @,
                              !.total = @ + got,
                              !.regions = @ \cup {[ptr |-> chunk.ptr, size |-> got]}]
  <1>3. y = IF n > available THEN [m |-> m, ok |-> FALSE]
            ELSE IF curr < n \/ (~direct /\ ~m.backpedal /\ stuck)
              THEN [m |-> [m EXCEPT !.hung = TRUE], ok |-> FALSE]
            ELSE IF got = 0 THEN [m |-> m1, ok |-> FALSE]
            ELSE [m |-> InsertFreeChunkIntoBin(AllocateChunk(m2, chunk), NextHandle(m2)), ok |-> TRUE]
    BY DEF Extend
  <1>4. /\ available \in Nat /\ available <= MemoryLimit - m.total
        /\ \E a \in Nat : available = kMinAllocationSize * a
    <2>1. PICK k \in Nat \ {0}, x \in Nat : k = kMinAllocationSize /\ x = MemoryLimit - m.total
      BY <1>1, <1>2, BFCAssumption
    <2>2. (x \div k) * k \in Nat /\ (x \div k) * k <= x /\ (x \div k) * k = k * (x \div k) /\ x \div k \in Nat
      BY ONLY k \in Nat \ {0}, x \in Nat, Multiples
    <2> QED
      BY ONLY <2>1, <2>2 DEF Available
  <1>5. curr \in Nat
    BY <1>2, DoubledSize
  <1> HIDE DEF available, curr
  <1>6. bytes \in Nat /\ bytes <= available /\ bytes <= curr /\ (bytes = curr \/ bytes = available)
    BY <1>4, <1>5, Pairs
  <1>7. \A t \in Tried(bytes, n) : t \in Nat /\ t >= n /\ t <= available
    BY <1>4, <1>6, TriedSizes
  <1> HIDE DEF bytes
  <1>8. CASE n > available
    <2>1. y.m = m /\ y.ok = FALSE
      <3> HIDE DEF direct, stuck, got, m1, m2, chunk
      <3> QED
        BY <1>3, <1>8
    <2>2. Refused(m, m, n)
      BY <1>4, <1>8 DEF NoRoom, NoSize, Refused, available
    <2>3. SamePlaces(m, m)
      BY DEF SamePlaces, SameChunk
    <2> QED
      BY <2>1, <2>2, <2>3, KeptSame DEF Extended, Tidy
  <1>9. CASE n <= available /\ (curr < n \/ (~direct /\ ~m.backpedal /\ stuck))
    <2>1. PICK w : w = [m EXCEPT !.hung = TRUE]
      OBVIOUS
    <2>2. y = [m |-> w, ok |-> FALSE]
      <3>1. ~(n > available)
        BY <1>4, <1>9
      <3> HIDE DEF direct, stuck, got, m1, m2, chunk
      <3> QED
        BY <1>3, <1>9, <2>1, <3>1
    <2>3. w = [m EXCEPT !.curr = m.curr, !.backpedal = m.backpedal, !.hung = TRUE]
      BY ONLY <1>1, <2>1 DEF MemType
    <2>4. Good(w, NoHandle) /\ Kept(m, w) /\ SamePlaces(m, w) /\ Tidy(m, w) /\ w.hung = TRUE
      <3>1. m.curr \in Nat /\ m.backpedal \in BOOLEAN /\ TRUE \in BOOLEAN
        BY <1>2
      <3>2. PICK hu : hu = TRUE
        OBVIOUS
      <3>3. PutAside(m, w, m.curr, m.backpedal, hu)
        BY ONLY <2>3, <3>2 DEF PutAside
      <3>4. hu \in BOOLEAN
        BY <3>2
      <3>5. Good(w, NoHandle) /\ Kept(m, w) /\ SamePlaces(m, w) /\ Tidy(m, w) /\ w.hung = hu
        BY ONLY <3>1, <3>3, <3>4, Good(m, NoHandle), AsideStep
      <3> QED
        BY ONLY <3>2, <3>5
    <2> QED
      BY ONLY <2>2, <2>4 DEF Extended, Refused
  <1>10. CASE n <= available /\ ~(curr < n \/ (~direct /\ ~m.backpedal /\ stuck))
    <2>1. curr >= n /\ bytes >= n /\ ~(n > available)
      BY <1>4, <1>5, <1>6, <1>10
    <2>2. \/ direct /\ got = bytes
          \/ ~direct /\ got = 0
          \/ ~direct /\ tried # {} /\ got = Max(tried)
      BY DEF got
    <2>3. ASSUME tried # {} PROVE Max(tried) \in tried
      <3>1. tried \in SUBSET Nat /\ \A t \in tried : t <= available
        BY <1>7
      <3> HIDE DEF tried
      <3> QED
        BY <1>4, <2>3, <3>1, MaxFacts
    <2>4. ASSUME got # 0
          PROVE  got \in Nat /\ got >= n /\ got <= available /\ SubAlloc(m, got) # Null
      <3>1. CASE direct /\ got = bytes
        BY <1>6, <2>1, <3>1
      <3>2. CASE ~direct /\ tried # {} /\ got = Max(tried)
        BY <1>7, <2>3, <3>2
      <3> HIDE DEF got
      <3> QED
        BY <2>2, <2>4, <3>1, <3>2
    <2>5. CASE got = 0
      <3>1. ~direct
        BY <1>6, <2>1, <2>5 DEF got
      <3>2. PICK bp, w : bp = (m.backpedal \/ ~direct) /\ w = [m EXCEPT !.curr = curr, !.backpedal = bp, !.hung = m.hung]
        OBVIOUS
      <3>3. w = m1
        BY ONLY <1>1, <3>2 DEF MemType, m1
      <3>4. y = [m |-> w, ok |-> FALSE]
        <4> HIDE DEF direct, stuck, got, m1, m2, chunk
        <4> QED
          BY <1>3, <1>10, <2>1, <2>5, <3>3
      <3>5. bp \in BOOLEAN
        BY <1>2, <3>2
      <3>6. Good(w, NoHandle) /\ Kept(m, w) /\ SamePlaces(m, w) /\ Tidy(m, w) /\ w.total = m.total /\ w.curr = curr
        <4>1. PutAside(m, w, curr, bp, m.hung)
          BY ONLY <3>2 DEF PutAside
        <4>2. m.hung \in BOOLEAN
          BY <1>2
        <4> QED
          BY ONLY <1>5, <3>5, <4>1, <4>2, Good(m, NoHandle), AsideStep
      <3>7. Available(w) = available /\ w.regions = m.regions
        BY <3>6 DEF Available, SamePlaces, available
      <3>8. Holes(m, bytes) = {}
        BY <1>1, <1>6, <3>1, SubAllocFacts DEF direct
      <3>9. NoRoom(w, n)
        <4>1. Holes(w, bytes) = {}
          BY <1>1, <1>6, <3>7, <3>8, SubAllocFacts
        <4>2. bytes = Min({w.curr, Available(w)})
          BY <3>6, <3>7 DEF bytes
        <4> QED
          BY <4>1, <4>2 DEF NoRoom
      <3>10. ASSUME ~m.backpedal PROVE NoSize(w, n)
        <4>1. tried = {}
          <5>1. ASSUME tried # {} PROVE FALSE
            <6>1. got = Max(tried)
              BY <3>1, <3>10, <5>1 DEF got
            <6> HIDE DEF got, tried
            <6> QED
              BY <1>7, <2>1, <2>3, <2>5, <5>1, <6>1 DEF tried
          <5> QED
            BY <5>1
        <4>2. \A t \in Tried(bytes, n) : SubAlloc(m, t) = Null
          BY <4>1 DEF tried
        <4>3. \A t \in Tried(bytes, n) : Backpedal(t) # t
          BY <1>10, <3>1, <3>10, <4>1 DEF stuck
        <4>4. ASSUME NEW k \in 1 .. DeviceSize, Backpedal(k) >= n PROVE Holes(w, k) = {}
          <5>1. k \in Nat /\ k > 0
            BY BFCAssumption
          <5>2. PICK t \in Tried(bytes, n) : t <= k
            BY <1>6, <2>1, <4>3, <4>4, <5>1, TriedAll
          <5>3. t \in Nat /\ SubAlloc(m, t) = Null
            BY <1>7, <4>2, <5>2
          <5>4. SubAlloc(m, k) = Null
            BY <1>1, <5>1, <5>2, <5>3, SubAllocFacts
          <5> QED
            BY <1>1, <3>7, <5>1, <5>4, SubAllocFacts
        <4> QED
          BY <4>4 DEF NoSize
      <3> QED
        BY ONLY <3>4, <3>6, <3>9, <3>10 DEF Extended, Refused
    <2>6. CASE got # 0
      <3>1. PICK k, p : k = got /\ p = SubAlloc(m, got)
        OBVIOUS
      <3>2. k \in Nat /\ k >= n /\ k <= available /\ p # Null /\ k # 0
        BY <2>4, <2>6, <3>1
      <3>3. p \in Holes(m, k)
        BY <1>1, <3>1, <3>2, SubAllocFacts
      <3>4. /\ p \in Addresses /\ p + k <= DeviceSize
            /\ \A s \in m.regions : p + k <= s.ptr \/ s.ptr + s.size <= p
        BY <3>3 DEF Holes
      <3>5. PICK bp, cu : bp = (m.backpedal \/ ~direct) /\ cu = IF n <= m.curr THEN Twice(curr) ELSE curr
        OBVIOUS
      <3>6. bp \in BOOLEAN /\ cu \in Nat
        <4>1. PICK e \in Nat \ {0} : e = 2^SizeBits
          BY BFCAssumption
        <4>2. (2 * curr) % e \in Nat
          BY <1>5
        <4> QED
          BY <1>2, <1>5, <3>5, <4>1, <4>2 DEF Twice
      <3>7. PICK v : v = [m EXCEPT !.curr = cu, !.backpedal = bp, !.total = m.total + k,
                                   !.regions = m.regions \cup {[ptr |-> p, size |-> k]}]
        OBVIOUS
      <3>8. PICK c : c = [ptr |-> p, size |-> k, used |-> FALSE, prev |-> NoHandle,
                          next |-> NoHandle, bin |-> NoBin, freed |-> 0]
        OBVIOUS
      <3>9. c = chunk /\ chunk.ptr = p
        BY <3>1, <3>8 DEF chunk
      <3>10. v = m2
        <4>1. m2 = [m1 EXCEPT !.curr = IF n <= m.curr THEN Twice(@) ELSE @, !.total = @ + k,
                              !.regions = @ \cup {[ptr |-> p, size |-> k]}]
          BY <3>1, <3>9 DEF m2
        <4>2. m1 = [m EXCEPT !.curr = curr, !.backpedal = bp]
          BY <3>5 DEF m1
        <4> QED
          BY ONLY ZenonT(30), <1>1, <3>5, <3>7, <4>1, <4>2 DEF MemType
      <3>11. PICK w : w = InsertFreeChunkIntoBin(AllocateChunk(v, c), NextHandle(v))
        OBVIOUS
      <3>12. y = [m |-> w, ok |-> TRUE]
        <4> HIDE DEF direct, stuck, got, m1, m2, chunk
        <4> QED
          BY <1>3, <1>10, <2>1, <2>6, <3>9, <3>10, <3>11
      <3>13. PICK r, h : r = [ptr |-> p, size |-> k] /\ h = NextHandle(m)
        OBVIOUS
      <3>14. AddedTo(m, w, h, r)
        BY ONLY <1>1, <3>2, <3>4, <3>6, <3>7, <3>8, <3>11, <3>13, AddFacts
      <3>15. /\ r \in [ptr : Addresses, size : Nat] /\ r.size > 0 /\ RegionEnd(r) <= DeviceSize /\ r.size = k
             /\ \A s \in m.regions : RegionEnd(r) <= s.ptr \/ RegionEnd(s) <= r.ptr
        BY ONLY <3>2, <3>4, <3>13, n \in Nat, n > 0 DEF RegionEnd
      <3>16. m.total + r.size <= MemoryLimit
        BY <1>2, <1>4, <3>2, <3>15
      <3>17. Good(w, NoHandle) /\ Kept(m, w) /\ Is(w, h) /\ Tidy(m, w)
        BY ONLY <3>14, <3>15, <3>16, Good(m, NoHandle), AddKeeps
      <3>18. ~w.chunks[h].used /\ w.chunks[h].freed = 0 /\ w.chunks[h].size >= n
        BY ONLY <3>2, <3>14, <3>15 DEF AddedTo, NewChunk
      <3> QED
        BY ONLY <3>12, <3>17, <3>18 DEF Extended
    <2> QED
      BY <2>5, <2>6
  <1> QED
    BY <1>4, <1>8, <1>9, <1>10
--------------------------------------------------------------------------------
(* Garbage collection of free regions *)

(* The chunks of `gone' below address k are no longer filed, and are spare. *)
SpareNow(m, gone, k, g) == g \in Handles(m) /\ (~Is(m, g) \/ (g \in gone /\ m.chunks[g].ptr < k))
GoneChunk(m, w, g) ==
  /\ ~w.chunks[g].used /\ w.chunks[g].bin = NoBin /\ w.chunks[g].freed = m.chunks[g].freed
  /\ w.chunks[g].ptr = m.chunks[g].ptr /\ w.chunks[g].size = m.chunks[g].size
ClearedTo(m, w, gone, k) ==
  /\ w \in MemType /\ Handles(w) = Handles(m) /\ SameRest(m, w) /\ w.timestamped = m.timestamped
  /\ \A a \in Addresses : w.handle[a] = IF a < k /\ m.handle[a] \in gone THEN NoHandle ELSE m.handle[a]
  /\ \A i \in 1 .. Len(w.spare) : SpareNow(m, gone, k, w.spare[i])
  /\ \A i, j \in 1 .. Len(w.spare) : w.spare[i] = w.spare[j] => i = j
  /\ \A g \in Handles(m) : IF g \in gone /\ m.chunks[g].ptr < k THEN GoneChunk(m, w, g) ELSE w.chunks[g] = m.chunks[g]

(* One round of DeallocateRegions' loop. *)
LEMMA ClearStep ==
  ASSUME NEW m \in MemType, Filed(m), NEW gone, \A g \in gone : Is(m, g),
         NEW k \in 1 .. DeviceSize, NEW v, ClearedTo(m, v, gone, k - 1), NEW w,
         w = IF m.handle[k - 1] \in gone THEN DeleteChunk(v, m.handle[k - 1]) ELSE v
  PROVE  ClearedTo(m, w, gone, k)
  <1>1. k - 1 \in Addresses /\ k \in Nat /\ \A a \in Addresses : a \in Nat
    BY BFCAssumption DEF Addresses
  <1>2. \A g \in Handles(m) : m.chunks[g].ptr \in Addresses
    BY Members
  <1>3. \A g \in gone : g \in Handles(m) /\ g = m.handle[m.chunks[g].ptr] /\ g # NoHandle
    BY Members DEF Is
  <1>4. CASE m.handle[k - 1] \notin gone
    <2>1. w = v
      BY <1>4
    <2>2. \A a \in Addresses : m.handle[a] \in gone => (a < k <=> a < k - 1)
      BY <1>1, <1>4
    <2>3. \A g \in gone : m.chunks[g].ptr < k <=> m.chunks[g].ptr < k - 1
      BY <1>2, <1>3, <2>2
    <2>4. \A g : SpareNow(m, gone, k - 1, g) => SpareNow(m, gone, k, g)
      BY <2>3 DEF SpareNow
    <2>5. \A a \in Addresses : w.handle[a] = IF a < k /\ m.handle[a] \in gone THEN NoHandle ELSE m.handle[a]
      BY <2>1, <2>2 DEF ClearedTo
    <2>6. \A g \in Handles(m) : IF g \in gone /\ m.chunks[g].ptr < k THEN GoneChunk(m, w, g) ELSE w.chunks[g] = m.chunks[g]
      BY <2>1, <2>3 DEF ClearedTo
    <2> QED
      BY <2>1, <2>4, <2>5, <2>6 DEF ClearedTo
  <1>5. CASE m.handle[k - 1] \in gone
    <2>1. PICK h : h = m.handle[k - 1]
      OBVIOUS
    <2>2. h \in gone /\ h \in Handles(m) /\ h # NoHandle /\ m.chunks[h].ptr = k - 1
      BY <1>1, <1>3, <1>5, <2>1 DEF Filed
    <2>3. v \in MemType /\ h \in Handles(v) /\ Handles(v) = Handles(m) /\ SameRest(m, v) /\ v.timestamped = m.timestamped
      BY <2>2 DEF ClearedTo
    <2>4. DeletedTo(v, w, h)
      BY <1>5, <2>1, <2>3, DeleteFacts
    <2>5. v.chunks[h] = m.chunks[h]
      BY <1>1, <2>2 DEF ClearedTo
    <2>6. w \in MemType /\ Handles(w) = Handles(m) /\ SameRest(m, w) /\ w.timestamped = m.timestamped
      BY <2>3, <2>4 DEF DeletedTo, SameRest
    <2>7. ASSUME NEW a \in Addresses PROVE w.handle[a] = IF a < k /\ m.handle[a] \in gone THEN NoHandle ELSE m.handle[a]
      <3>1. w.handle[a] = IF a = k - 1 THEN NoHandle ELSE v.handle[a]
        BY <2>2, <2>4, <2>5 DEF DeletedTo
      <3>2. v.handle[a] = IF a < k - 1 /\ m.handle[a] \in gone THEN NoHandle ELSE m.handle[a]
        BY DEF ClearedTo
      <3>3. a < k <=> a < k - 1 \/ a = k - 1
        BY <1>1
      <3> QED
        BY <2>1, <2>2, <3>1, <3>2, <3>3
    <2>8. ASSUME NEW g \in Handles(m)
          PROVE  IF g \in gone /\ m.chunks[g].ptr < k THEN GoneChunk(m, w, g) ELSE w.chunks[g] = m.chunks[g]
      <3>1. CASE g = h
        <4>1. GoneChunk(m, w, h)
          BY <2>4, <2>5 DEF DeletedTo, GoneChunk
        <4> QED
          BY <1>1, <2>2, <3>1, <4>1
      <3>2. CASE g # h
        <4>1. w.chunks[g] = v.chunks[g]
          BY <2>3, <2>4, <3>2 DEF DeletedTo
        <4>2. IF g \in gone /\ m.chunks[g].ptr < k - 1 THEN GoneChunk(m, v, g) ELSE v.chunks[g] = m.chunks[g]
          BY DEF ClearedTo
        <4>3. g \in gone => m.chunks[g].ptr # k - 1
          BY <1>3, <2>1, <3>2
        <4>4. g \in gone => (m.chunks[g].ptr < k <=> m.chunks[g].ptr < k - 1)
          BY <1>1, <1>2, <4>3
        <4> QED
          BY <4>1, <4>2, <4>4 DEF GoneChunk
      <3> QED
        BY <3>1, <3>2
    <2>9. \A g : SpareNow(m, gone, k - 1, g) => SpareNow(m, gone, k, g) /\ g # h
      <3>1. \A g \in gone : m.chunks[g].ptr < k - 1 => m.chunks[g].ptr < k
        BY <1>1, <1>2, <1>3
      <3>2. Is(m, h) /\ ~(m.chunks[h].ptr < k - 1)
        BY <1>1, <2>2
      <3> QED
        BY <3>1, <3>2 DEF SpareNow
    <2>10. PICK s, t : s = v.spare /\ t = w.spare
      OBVIOUS
    <2>11. /\ Len(s) \in Nat /\ Len(t) = Len(s) + 1 /\ t[1] = h
           /\ \A i \in 1 .. Len(s) : t[i + 1] = s[i]
           /\ \A i \in 1 .. Len(s) : SpareNow(m, gone, k - 1, s[i])
           /\ \A i, j \in 1 .. Len(s) : s[i] = s[j] => i = j
      BY <2>3, <2>4, <2>10, Members DEF DeletedTo, ClearedTo
    <2>12. ASSUME NEW i \in 1 .. Len(t)
           PROVE  \/ i = 1 /\ t[i] = h
                  \/ i - 1 \in 1 .. Len(s) /\ t[i] = s[i - 1]
      <3>1. CASE i = 1
        BY <2>11, <3>1
      <3>2. CASE i # 1
        <4>1. i - 1 \in 1 .. Len(s) /\ (i - 1) + 1 = i
          BY <2>11, <3>2
        <4> QED
          BY <2>11, <4>1
      <3> QED
        BY <3>1, <3>2
    <2>13. \A i \in 1 .. Len(t) : SpareNow(m, gone, k, t[i])
      <3>1. SpareNow(m, gone, k, h)
        BY <1>1, <2>2 DEF SpareNow
      <3> QED
        BY <2>9, <2>11, <2>12, <3>1
    <2>14. ASSUME NEW i \in 1 .. Len(t), NEW j \in 1 .. Len(t), t[i] = t[j] PROVE i = j
      <3>1. \A e \in 1 .. Len(s) : s[e] # h
        BY <2>9, <2>11
      <3>2. CASE i = 1
        BY <2>12, <2>14, <3>1, <3>2
      <3>3. CASE j = 1
        <4>1. t[i] = h
          BY <2>11, <2>14, <3>3
        <4> QED
          BY <2>12, <3>1, <3>3, <4>1
      <3>4. CASE i # 1 /\ j # 1
        <4>1. i - 1 \in 1 .. Len(s) /\ j - 1 \in 1 .. Len(s) /\ s[i - 1] = s[j - 1]
          BY <2>12, <2>14, <3>4
        <4>2. i - 1 = j - 1
          BY <2>11, <4>1
        <4> QED
          BY <2>11, <4>2
      <3> QED
        BY <3>2, <3>3, <3>4
    <2> QED
      BY <2>6, <2>7, <2>8, <2>10, <2>13, <2>14 DEF ClearedTo
  <1> QED
    BY <1>4, <1>5

(* The loop. *)
LEMMA ClearAll ==
  ASSUME NEW m \in MemType, Filed(m), NEW free, NEW y, y = DeleteChunks(m, free)
  PROVE  ClearedTo(m, y, UNION {ChunksOf(m, r) : r \in free}, DeviceSize)
  <1>1. PICK n, gone : n = DeviceSize /\ gone = UNION {ChunksOf(m, r) : r \in free}
    OBVIOUS
  <1>2. n \in Nat /\ \A g \in gone : Is(m, g)
    BY <1>1, BFCAssumption, LiveIs DEF ChunksOf
  <1>3. PICK T : T = {x \in MemType : Handles(x) = Handles(m)}
    OBVIOUS
  <1>4. ASSUME NEW x \in T, NEW k \in 1 .. n, m.handle[k - 1] \in gone PROVE DeleteChunk(x, m.handle[k - 1]) \in T
    <2>1. x \in MemType /\ Handles(x) = Handles(m) /\ m.handle[k - 1] \in Handles(x)
      BY <1>2, <1>3, <1>4 DEF Is
    <2>2. DeletedTo(x, DeleteChunk(x, m.handle[k - 1]), m.handle[k - 1])
      BY <2>1, DeleteFacts
    <2> QED
      BY <1>3, <2>1, <2>2 DEF DeletedTo
  <1> DEFINE Def(f) == f = [k \in 0 .. n |-> IF k = 0 THEN m
                                ELSE IF m.handle[k - 1] \in gone THEN DeleteChunk(f[k - 1], m.handle[k - 1]) ELSE f[k - 1]]
             X == CHOOSE f : Def(f)
  <1>5. PICK step : step = [z \in T \X (1 .. n) |->
                             IF m.handle[z[2] - 1] \in gone THEN DeleteChunk(z[1], m.handle[z[2] - 1]) ELSE z[1]]
    OBVIOUS
  <1>6. /\ step \in [T \X (1 .. n) -> T]
        /\ \A x \in T, k \in 1 .. n : step[<<x, k>>] = IF m.handle[k - 1] \in gone THEN DeleteChunk(x, m.handle[k - 1]) ELSE x
    BY <1>4, <1>5
  <1>7. PICK f \in [0 .. n -> T] : RunOf(f, m, n, step)
    <2>1. n \in Nat /\ m \in T /\ step \in [T \X (1 .. n) -> T]
      BY <1>2, <1>3, <1>6
    <2> QED
      BY ONLY <2>1, Iteration
  <1>8. Def(f)
    <2>1. ASSUME NEW i \in 1 .. n
          PROVE  f[i] = IF m.handle[i - 1] \in gone THEN DeleteChunk(f[i - 1], m.handle[i - 1]) ELSE f[i - 1]
      <3>1. i - 1 \in 0 .. n
        BY <1>2
      <3>2. f[i - 1] \in T
        BY <3>1, <1>7
      <3> QED
        BY <1>6, <1>7, <3>2 DEF RunOf
    <2>2. ASSUME NEW i \in 0 .. n
          PROVE  f[i] = IF i = 0 THEN m
                        ELSE IF m.handle[i - 1] \in gone THEN DeleteChunk(f[i - 1], m.handle[i - 1]) ELSE f[i - 1]
      BY <1>2, <1>7, <2>1 DEF RunOf
    <2> QED
      BY <1>7, <2>2
  <1>9. Def(X)
    BY <1>8
  <1>10. y = X[n]
    BY <1>1 DEF DeleteChunks
  <1> HIDE DEF X
  <1>11. X[0] = m
    BY <1>2, <1>9
  <1>12. \A i \in 1 .. n : X[i] = IF m.handle[i - 1] \in gone THEN DeleteChunk(X[i - 1], m.handle[i - 1]) ELSE X[i - 1]
    BY <1>2, <1>9
  <1> HIDE DEF Def
  <1>13. ClearedTo(m, m, gone, 0)
    <2>1. \A a \in Addresses : ~(a < 0)
      BY BFCAssumption DEF Addresses
    <2>2. \A g \in Handles(m) : ~(m.chunks[g].ptr < 0)
      BY <2>1, Members
    <2>3. \A i \in 1 .. Len(m.spare) : SpareNow(m, gone, 0, m.spare[i])
      BY DEF Filed, SpareNow
    <2> QED
      BY <2>1, <2>2, <2>3 DEF ClearedTo, SameRest, Filed
  <1>14. ClearedTo(m, X[n], gone, n)
    <2>1. PICK S : S = {i \in 0 .. n : ClearedTo(m, X[i], gone, i)}
      OBVIOUS
    <2>2. 0 \in S
      BY <1>2, <1>11, <1>13, <2>1
    <2>3. ASSUME NEW i \in 1 .. n, i - 1 \in S PROVE i \in S
      <3>1. ClearedTo(m, X[i - 1], gone, i - 1) /\ i \in 1 .. DeviceSize
        BY <1>1, <2>1, <2>3
      <3>2. ClearedTo(m, X[i], gone, i)
        BY ONLY <1>2, <1>12, <3>1, i \in 1 .. n, m \in MemType, Filed(m), ClearStep
      <3> QED
        BY <1>2, <2>1, <3>2
    <2>4. n \in S
      BY <1>2, <2>2, <2>3, UpTo
    <2> QED
      BY <2>1, <2>4
  <1> QED
    BY <1>1, <1>10, <1>14

(* A byte is in one region at most. *)
LEMMA OneRegion ==
  ASSUME NEW m \in MemType, Regions(m), NEW r \in m.regions, NEW s \in m.regions, NEW a \in Int,
         Holds(r, a), Holds(s, a)
  PROVE  r = s
  <1>1. /\ r.ptr \in Int /\ r.size \in Nat /\ s.ptr \in Int /\ s.size \in Nat
        /\ RegionEnd(r) \in Int /\ RegionEnd(s) \in Int
    BY Members DEF RegionEnd
  <1> QED
    BY <1>1 DEF Regions, Apart, Holds

(* The regions of `free' and their chunks are gone. *)
Without(m, w, free) ==
  /\ w \in MemType /\ w.regions = m.regions \ free /\ Handles(w) = Handles(m)
  /\ w.total = m.total - Cardinality(Bytes(free)) /\ w.in_use = m.in_use
  /\ w.gc = m.gc /\ w.timed = m.timed /\ w.frontier = m.frontier /\ w.hung = m.hung /\ w.curr = m.curr
  /\ w.timestamped = m.timestamped
  /\ \A i \in 1 .. Len(w.spare) : w.spare[i] \in Handles(m) /\ ~Is(w, w.spare[i])
  /\ \A i, j \in 1 .. Len(w.spare) : w.spare[i] = w.spare[j] => i = j
  /\ \A a \in Addresses : w.handle[a] # NoHandle => w.handle[a] = m.handle[a]
  /\ \A g \in Handles(m) : w.chunks[g].ptr = m.chunks[g].ptr
  /\ \A g : Is(w, g) <=> Is(m, g) /\ \A r \in free : ~Holds(r, m.chunks[g].ptr)
  /\ \A g \in Handles(m) : \/ Is(w, g) /\ w.chunks[g] = m.chunks[g]
                           \/ ~Is(m, g) /\ w.chunks[g] = m.chunks[g]
                           \/ Is(m, g) /\ ~Is(w, g) /\ ~w.chunks[g].used /\ w.chunks[g].bin = NoBin

(* DeallocateRegions takes them away. *)
LEMMA WithoutFacts ==
  ASSUME NEW m, Good(m, NoHandle), NEW free \in SUBSET m.regions, NEW w, w = DeallocateRegions(m, free)
  PROVE  Without(m, w, free)
  <1>1. m \in MemType /\ Filed(m) /\ Regions(m) /\ m.total \in Nat
    BY Members DEF Good
  <1>2. PICK gone, v : gone = UNION {ChunksOf(m, r) : r \in free} /\ v = DeleteChunks(m, free)
    OBVIOUS
  <1>3. ClearedTo(m, v, gone, DeviceSize)
    BY <1>1, <1>2, ClearAll
  <1>4. \A a \in Addresses : a < DeviceSize /\ a \in Int
    BY BFCAssumption DEF Addresses
  <1>5. \A g \in Handles(m) : m.chunks[g].ptr \in Addresses /\ g # NoHandle
    BY <1>1, Members
  <1>6. \A g : g \in gone <=> Is(m, g) /\ \E r \in free : Holds(r, m.chunks[g].ptr)
    <2>1. \A g : g \in Live(m) <=> Is(m, g)
      BY <1>1, LiveIs
    <2>2. \A g : Is(m, g) => m.chunks[g].ptr \in Int
      BY <1>4, <1>5 DEF Is
    <2>3. \A r \in m.regions, a \in Int : a \in r.ptr .. r.ptr + r.size - 1 <=> Holds(r, a)
      BY <1>1, RegionBytes
    <2> QED
      BY <1>2, <2>1, <2>2, <2>3 DEF ChunksOf
  <1>7. /\ v \in MemType /\ Handles(v) = Handles(m) /\ SameRest(m, v) /\ v.timestamped = m.timestamped
        /\ \A a \in Addresses : v.handle[a] = IF m.handle[a] \in gone THEN NoHandle ELSE m.handle[a]
        /\ \A i, j \in 1 .. Len(v.spare) : v.spare[i] = v.spare[j] => i = j
    BY <1>3, <1>4 DEF ClearedTo
  <1>8. \A g \in Handles(m) : IF g \in gone THEN GoneChunk(m, v, g) ELSE v.chunks[g] = m.chunks[g]
    BY <1>3, <1>4, <1>5 DEF ClearedTo
  <1>9. \A i \in 1 .. Len(v.spare) : v.spare[i] \in Handles(m) /\ (~Is(m, v.spare[i]) \/ v.spare[i] \in gone)
    BY <1>3 DEF ClearedTo, SpareNow
  <1>10. PICK t, R : t = m.total - Cardinality(Bytes(free)) /\ R = m.regions \ free
    OBVIOUS
  <1>11. t \in Nat /\ R \in SUBSET [ptr : Addresses, size : Nat]
    <2>1. Bytes(free) \subseteq Bytes(m.regions) /\ IsFiniteSet(Bytes(m.regions))
      <3>1. Bytes(free) \subseteq Bytes(m.regions)
        BY DEF Bytes
      <3> QED
        BY <1>1, <3>1, RegionBytes
    <2>2. Cardinality(Bytes(free)) <= Cardinality(Bytes(m.regions)) /\ Cardinality(Bytes(free)) \in Nat
      BY <2>1, FS_Subset, FS_CardinalityType
    <2>3. m.total = Cardinality(Bytes(m.regions))
      BY DEF Good, Counted
    <2> QED
      BY <1>1, <1>10, <2>2, <2>3, Members
  <1>12. w = [v EXCEPT !.regions = R, !.total = t]
    BY <1>2, <1>7, <1>10 DEF DeallocateRegions, TotalWithout, SameRest
  <1>13. /\ w \in MemType /\ w.chunks = v.chunks /\ w.handle = v.handle /\ w.spare = v.spare /\ w.timestamped = v.timestamped
         /\ w.regions = R /\ w.total = t /\ w.in_use = v.in_use /\ w.gc = v.gc /\ w.timed = v.timed /\ w.frontier = v.frontier
         /\ w.hung = v.hung /\ w.curr = v.curr
    <2>1. v \in MemType
      BY <1>7
    <2> QED
      BY ONLY <1>11, <1>12, <2>1 DEF MemType
  <1>14. Handles(w) = Handles(m) /\ \A g \in Handles(m) : w.chunks[g].ptr = m.chunks[g].ptr
    BY <1>7, <1>8, <1>13 DEF Handles, GoneChunk
  <1>15. ASSUME NEW g PROVE Is(w, g) <=> Is(m, g) /\ g \notin gone
    <2>1. CASE g \in Handles(m)
      <3>1. w.handle[w.chunks[g].ptr] = IF m.handle[m.chunks[g].ptr] \in gone THEN NoHandle ELSE m.handle[m.chunks[g].ptr]
        BY <1>5, <1>7, <1>13, <1>14, <2>1
      <3> QED
        BY <1>5, <1>14, <2>1, <3>1 DEF Is
    <2>2. CASE g \notin Handles(m)
      BY <1>14, <2>2 DEF Is
    <2> QED
      BY <2>1, <2>2
  <1>16. \A g : Is(w, g) <=> Is(m, g) /\ \A r \in free : ~Holds(r, m.chunks[g].ptr)
    BY <1>6, <1>15
  <1>17. \A i \in 1 .. Len(w.spare) : w.spare[i] \in Handles(m) /\ ~Is(w, w.spare[i])
    BY <1>9, <1>13, <1>15
  <1>18. ASSUME NEW g \in Handles(m)
         PROVE  \/ Is(w, g) /\ w.chunks[g] = m.chunks[g]
                \/ ~Is(m, g) /\ w.chunks[g] = m.chunks[g]
                \/ Is(m, g) /\ ~Is(w, g) /\ ~w.chunks[g].used /\ w.chunks[g].bin = NoBin
    BY <1>6, <1>8, <1>13, <1>15 DEF GoneChunk
  <1>19. \A i, j \in 1 .. Len(w.spare) : w.spare[i] = w.spare[j] => i = j
    BY <1>7, <1>13
  <1>20. \A a \in Addresses : w.handle[a] # NoHandle => w.handle[a] = m.handle[a]
    BY <1>7, <1>13
  <1>21. /\ w.total = m.total - Cardinality(Bytes(free)) /\ w.in_use = m.in_use /\ w.regions = m.regions \ free
         /\ w.gc = m.gc /\ w.timed = m.timed /\ w.frontier = m.frontier /\ w.hung = m.hung /\ w.curr = m.curr
         /\ w.timestamped = m.timestamped /\ w \in MemType
    BY <1>7, <1>10, <1>13 DEF SameRest
  <1> QED
    BY ONLY <1>14, <1>16, <1>17, <1>18, <1>19, <1>20, <1>21 DEF Without

(* What is back with the device was never freed. *)
Reset(F, S) == [a \in Addresses |-> IF a \in S THEN 0 ELSE F[a]]

(* The chunks in use are those that were, and the bytes of S are new. *)
KeptUse(m, w) ==
  /\ w.frontier = m.frontier /\ Handles(m) \subseteq Handles(w)
  /\ \A g \in Handles(w) : w.chunks[g].used => g \in Handles(m) /\ m.chunks[g].used
  /\ \A g \in Handles(m) : m.chunks[g].used => SameBlock(m, w, g)
Given(m, w, S) ==
  /\ KeptUse(m, w) /\ w.timed = m.timed
  /\ \A F \in Times : Timely(m, F) => Timely(w, Reset(F, S))

(* Keeping everything is giving nothing. *)
LEMMA KeptGiven ==
  ASSUME NEW m, NEW v, Kept(m, v)
  PROVE  /\ KeptUse(m, v) /\ Given(m, v, {})
         /\ \A w, S : Given(v, w, S) => Given(m, w, S)
  <1>1. KeptUse(m, v) /\ v.timed = m.timed /\ \A F \in Times : Timely(m, F) => Timely(v, F)
    BY DEF Kept, SameMode, KeptUse
  <1>2. ASSUME NEW F \in Times PROVE Reset(F, {}) = F
    BY DEF Reset, Times
  <1>3. Given(m, v, {})
    BY <1>1, <1>2 DEF Given
  <1>4. ASSUME NEW w, NEW S, Given(v, w, S) PROVE Given(m, w, S)
    <2>1. KeptUse(m, w)
      <3>1. w.frontier = m.frontier /\ Handles(m) \subseteq Handles(w)
        BY <1>1, <1>4 DEF Given, KeptUse
      <3>2. \A g \in Handles(w) : w.chunks[g].used => g \in Handles(m) /\ m.chunks[g].used
        BY <1>1, <1>4 DEF Given, KeptUse
      <3>3. \A g \in Handles(m) : m.chunks[g].used => SameBlock(m, w, g)
        BY <1>1, <1>4 DEF Given, KeptUse, SameBlock
      <3> QED
        BY <3>1, <3>2, <3>3 DEF KeptUse
    <2> QED
      BY <1>1, <1>4, <2>1 DEF Given
  <1> QED
    BY <1>1, <1>3, <1>4

(* Without its free regions the allocator keeps the invariant. *)
LEMMA WithoutKeeps ==
  ASSUME NEW m, Good(m, NoHandle), NEW free \in SUBSET m.regions, NEW w, Without(m, w, free),
         \A g, r : r \in free /\ Is(m, g) /\ Holds(r, m.chunks[g].ptr) => ~m.chunks[g].used
  PROVE  /\ Good(w, NoHandle) /\ Given(m, w, Bytes(free)) /\ Tidy(m, w)
         /\ \A g : Is(w, g) => Is(m, g) /\ w.chunks[g] = m.chunks[g]
  <1>1. m \in MemType /\ Filed(m) /\ Regions(m) /\ Linked(m) /\ Tiled(m) /\ Binned(m, NoHandle) /\ Counted(m)
    BY DEF Good
  <1>2. w \in MemType /\ w.regions = m.regions \ free /\ Handles(w) = Handles(m)
    BY DEF Without
  <1>3. \A g : Is(w, g) <=> Is(m, g) /\ \A r \in free : ~Holds(r, m.chunks[g].ptr)
    BY DEF Without
  <1>4. \A g \in Handles(m) : \/ Is(w, g) /\ w.chunks[g] = m.chunks[g]
                              \/ ~Is(m, g) /\ w.chunks[g] = m.chunks[g]
                              \/ Is(m, g) /\ ~Is(w, g) /\ ~w.chunks[g].used /\ w.chunks[g].bin = NoBin
    BY DEF Without
  <1>5. \A g : Is(w, g) => Is(m, g) /\ g \in Handles(m) /\ w.chunks[g] = m.chunks[g]
    BY <1>3, <1>4 DEF Is
  <1>6. ASSUME NEW g, Is(m, g)
        PROVE  /\ m.chunks[g].ptr \in Int /\ Fin(m, g) \in Int /\ m.chunks[g].ptr < Fin(m, g) /\ g \in Handles(m)
               /\ \E r \in m.regions : Holds(r, m.chunks[g].ptr) /\ Fin(m, g) <= RegionEnd(r)
    BY <1>1, <1>6, ChunkInRegion DEF Fin
  <1>7. \A r \in m.regions : r.ptr \in Int /\ RegionEnd(r) \in Int /\ r.ptr \in Addresses
    BY <1>1, Members DEF RegionEnd
  (* A chunk with a byte in a region that stays is one that stays. *)
  <1>8. ASSUME NEW g, Is(m, g), NEW r \in w.regions, NEW a \in Int, Holds(r, a), Covers(m, g, a)
        PROVE  Is(w, g)
    <2>1. PICK s \in m.regions : Holds(s, m.chunks[g].ptr) /\ Fin(m, g) <= RegionEnd(s)
      BY <1>6, <1>8
    <2>2. Holds(s, a)
      BY <1>6, <1>7, <1>8, <2>1 DEF Holds, Covers
    <2>3. s = r /\ r \notin free
      BY <1>1, <1>2, <1>8, <2>2, OneRegion
    <2>4. ASSUME NEW f \in free, Holds(f, m.chunks[g].ptr) PROVE FALSE
      <3>1. f = s
        BY <1>1, <1>6, <1>8, <2>1, <2>4, OneRegion
      <3> QED
        BY <2>3, <2>4, <3>1
    <2> QED
      BY <1>3, <1>8, <2>4
  <1>9. \A g : Is(m, g) => Covers(m, g, m.chunks[g].ptr)
    BY <1>6 DEF Covers
  <1>10. Filed(w)
    <2>1. ASSUME NEW a \in Addresses, w.handle[a] # NoHandle
          PROVE  w.handle[a] \in Handles(w) /\ w.chunks[w.handle[a]].ptr = a
      <3>1. PICK g : g = w.handle[a] /\ g = m.handle[a]
        BY <2>1 DEF Without
      <3>2. g \in Handles(m) /\ m.chunks[g].ptr = a /\ Is(m, g)
        BY <1>1, <2>1, <3>1 DEF Filed, Is
      <3>3. w.chunks[g].ptr = a
        BY <3>2 DEF Without
      <3> QED
        BY <1>2, <3>1, <3>2, <3>3
    <2>2. \A i \in 1 .. Len(w.spare) : w.spare[i] \in Handles(w) /\ ~Is(w, w.spare[i])
      BY <1>2 DEF Without
    <2>3. \A i, j \in 1 .. Len(w.spare) : w.spare[i] = w.spare[j] => i = j
      BY DEF Without
    <2>4. \A i \in 1 .. Len(w.timestamped) : w.timestamped[i] \in Handles(w)
      BY <1>1, <1>2 DEF Without, Filed
    <2> QED
      BY <2>1, <2>2, <2>3, <2>4 DEF Filed
  <1>11. Regions(w)
    <2>1. ASSUME NEW r \in w.regions PROVE w.handle[r.ptr] # NoHandle /\ r.size > 0 /\ RegionEnd(r) <= DeviceSize
      <3>1. r \in m.regions /\ r.ptr \in Addresses /\ r.size > 0 /\ RegionEnd(r) <= DeviceSize /\ m.handle[r.ptr] # NoHandle
        BY <1>1, <1>2, <1>7 DEF Regions
      <3>2. PICK g : g = m.handle[r.ptr]
        OBVIOUS
      <3>3. Is(m, g) /\ m.chunks[g].ptr = r.ptr
        BY <1>1, <3>1, <3>2 DEF Filed, Is
      <3>4. r.ptr \in Int /\ Holds(r, r.ptr)
        BY <1>1, <1>7, <3>1, Members DEF Holds, RegionEnd
      <3>5. Is(w, g)
        BY <1>8, <1>9, <3>3, <3>4
      <3>6. w.handle[r.ptr] = g /\ g # NoHandle
        BY SMTT(30), <1>5, <3>1, <3>2, <3>3, <3>5 DEF Is
      <3> QED
        BY <3>1, <3>6
    <2>2. Apart(w)
      BY <1>1, <1>2 DEF Regions, Apart
    <2> QED
      BY <2>1, <2>2 DEF Regions
  <1>12. ASSUME NEW g, Is(w, g) PROVE Fin(w, g) = Fin(m, g)
    BY <1>5, <1>12 DEF Fin
  <1>13. Linked(w)
    <2> SUFFICES ASSUME NEW g \in Handles(w), Is(w, g)
                 PROVE  /\ w.chunks[g].size > 0
                        /\ \E s \in w.regions : Holds(s, w.chunks[g].ptr)
                        /\ \A s \in w.regions : Holds(s, w.chunks[g].ptr) => NextLink(w, g, s) /\ PrevLink(w, g, s)
      BY DEF Linked
    <2>1. Is(m, g) /\ g \in Handles(m) /\ w.chunks[g] = m.chunks[g]
      BY <1>5
    <2>2. m.chunks[g].size > 0 /\ \E s \in m.regions : Holds(s, m.chunks[g].ptr)
      BY <1>1, <2>1 DEF Linked
    <2>3. \E s \in w.regions : Holds(s, w.chunks[g].ptr)
      BY <1>2, <1>3, <2>1, <2>2
    <2>4. ASSUME NEW s \in w.regions, Holds(s, w.chunks[g].ptr) PROVE NextLink(w, g, s) /\ PrevLink(w, g, s)
      <3>1. s \in m.regions /\ Holds(s, m.chunks[g].ptr)
        BY <1>2, <2>1, <2>4
      <3>2. NextLink(m, g, s) /\ PrevLink(m, g, s)
        BY <1>1, <2>1, <3>1 DEF Linked
      <3>3. /\ m.chunks[g].ptr \in Int /\ Fin(m, g) \in Int /\ m.chunks[g].ptr < Fin(m, g)
            /\ s.ptr \in Int /\ RegionEnd(s) \in Int
        BY <1>6, <1>7, <2>1, <3>1
      <3>4. NextLink(w, g, s)
        <4>1. PICK n : n = m.chunks[g].next
          OBVIOUS
        <4>2. CASE Fin(m, g) = RegionEnd(s) /\ n = NoHandle
          BY <1>12, <2>1, <4>1, <4>2 DEF NextLink
        <4>3. CASE Fin(m, g) < RegionEnd(s) /\ Is(m, n) /\ m.chunks[n].ptr = Fin(m, g) /\ m.chunks[n].prev = g
          <5>1. Holds(s, Fin(m, g))
            BY <3>1, <3>3, <4>3 DEF Holds
          <5>2. Is(w, n)
            BY <1>8, <1>9, <3>3, <4>3, <5>1
          <5> QED
            BY <1>5, <1>12, <2>1, <4>1, <4>3, <5>2 DEF NextLink
        <4> QED
          BY <3>2, <4>1, <4>2, <4>3 DEF NextLink
      <3>5. PrevLink(w, g, s)
        <4>1. PICK p : p = m.chunks[g].prev
          OBVIOUS
        <4>2. CASE m.chunks[g].ptr = s.ptr /\ p = NoHandle
          BY <2>1, <4>1, <4>2 DEF PrevLink
        <4>3. CASE m.chunks[g].ptr > s.ptr /\ Is(m, p) /\ Fin(m, p) = m.chunks[g].ptr /\ m.chunks[p].next = g
          <5>1. m.chunks[g].ptr - 1 \in Int /\ Holds(s, m.chunks[g].ptr - 1)
            BY <3>1, <3>3, <4>3 DEF Holds
          <5>2. Covers(m, p, m.chunks[g].ptr - 1)
            BY <1>6, <3>3, <4>3 DEF Covers
          <5>3. Is(w, p)
            BY <1>8, <4>3, <5>1, <5>2
          <5> QED
            BY <1>5, <1>12, <2>1, <4>1, <4>3, <5>3 DEF PrevLink
        <4> QED
          BY <3>2, <4>1, <4>2, <4>3 DEF PrevLink
      <3> QED
        BY <3>4, <3>5
    <2> QED
      BY <2>1, <2>2, <2>3, <2>4
  <1>14. Tiled(w)
    <2>1. ASSUME NEW g, NEW f, Is(w, g), Is(w, f), g # f
          PROVE  Fin(w, g) <= w.chunks[f].ptr \/ Fin(w, f) <= w.chunks[g].ptr
      BY <1>1, <1>5, <1>12, <2>1 DEF Tiled
    <2>2. ASSUME NEW s \in w.regions, NEW a \in Addresses, Holds(s, a)
          PROVE  \E g \in Handles(w) : Is(w, g) /\ Covers(w, g, a)
      <3>1. PICK g \in Handles(m) : Is(m, g) /\ Covers(m, g, a)
        BY <1>1, <1>2, <2>2 DEF Tiled
      <3>2. a \in Int
        BY BFCAssumption DEF Addresses
      <3>3. Is(w, g)
        BY <1>8, <2>2, <3>1, <3>2
      <3>4. Covers(w, g, a)
        BY <1>5, <1>12, <3>1, <3>3 DEF Covers
      <3> QED
        BY <1>2, <3>3, <3>4
    <2> QED
      BY <2>1, <2>2 DEF Tiled
  <1>15. \A g \in Handles(m) : m.chunks[g].used => Is(m, g) /\ Is(w, g) /\ w.chunks[g] = m.chunks[g]
    <2>1. \A g \in Handles(m) : m.chunks[g].used => Is(m, g)
      BY <1>1 DEF Binned
    <2> QED
      BY <1>3, <1>5, <2>1
  <1>16. \A g \in Handles(w) : w.chunks[g].used => g \in Handles(m) /\ m.chunks[g].used
    BY <1>2, <1>4
  <1>17. UsedBytes(w) = UsedBytes(m)
    <2>1. ASSUME NEW a \in Addresses, NEW g \in Handles(m), m.chunks[g].used
          PROVE  Covers(w, g, a) <=> Covers(m, g, a)
      BY <1>12, <1>15, <2>1 DEF Covers
    <2> QED
      BY <1>2, <1>15, <1>16, <2>1 DEF UsedBytes
  <1>18. Counted(w)
    <2>1. PICK A, B, C : A = Bytes(m.regions) /\ B = Bytes(free) /\ C = Bytes(w.regions)
      OBVIOUS
    <2>2. A = B \cup C
      BY <1>2, <2>1 DEF Bytes
    <2>3. /\ IsFiniteSet(B) /\ Cardinality(B) \in Nat /\ IsFiniteSet(C) /\ Cardinality(C) \in Nat
          /\ B \subseteq Addresses
      <3>1. w.regions \in SUBSET m.regions
        BY <1>2
      <3> QED
        BY <1>1, <2>1, <3>1, RegionBytes
    <2>4. B \cap C = {}
      <3> SUFFICES ASSUME NEW a \in B, a \in C PROVE FALSE
        OBVIOUS
      <3>1. a \in Int
        BY <2>3, BFCAssumption DEF Addresses
      <3>2. PICK f \in free : a \in f.ptr .. f.ptr + f.size - 1
        BY <2>1 DEF Bytes
      <3>3. PICK s \in w.regions : a \in s.ptr .. s.ptr + s.size - 1
        BY <2>1 DEF Bytes
      <3>4. s \in m.regions /\ s \notin free /\ f \in m.regions
        BY <1>2
      <3>5. Holds(f, a) /\ Holds(s, a)
        BY <1>1, <3>1, <3>2, <3>3, <3>4, RegionBytes
      <3>6. f = s
        BY <1>1, <3>1, <3>4, <3>5, OneRegion
      <3> QED
        BY <3>4, <3>6
    <2>5. Cardinality(B \cup C) = Cardinality(B) + Cardinality(C) - Cardinality(B \cap C)
      BY <2>3, FS_Union
    <2>6. Cardinality(B \cap C) = 0
      BY <2>4, FS_EmptySet
    <2>7. /\ m.total = Cardinality(A) /\ m.total <= MemoryLimit /\ w.total = m.total - Cardinality(B)
          /\ w.in_use = m.in_use /\ m.in_use = Cardinality(UsedBytes(m)) /\ MemoryLimit \in Int
      BY <1>1, <2>1, BFCAssumption DEF Counted, Without
    <2>8. w.total = Cardinality(C) /\ w.total <= MemoryLimit
      BY ONLY <2>2, <2>3, <2>5, <2>6, <2>7
    <2> QED
      BY <1>17, <2>1, <2>7, <2>8 DEF Counted
  <1>19. Binned(w, NoHandle)
    <2>1. ASSUME NEW g \in Handles(w)
          PROVE  /\ w.chunks[g].used => Is(w, g) /\ w.chunks[g].bin = NoBin
                 /\ w.chunks[g].bin # NoBin => Is(w, g)
                 /\ Is(w, g) /\ ~w.chunks[g].used /\ g # NoHandle => w.chunks[g].bin = BinNumForSize(w.chunks[g].size)
                 /\ g = NoHandle => w.chunks[g].bin = NoBin
      <3>1. g \in Handles(m) /\ g # NoHandle
        BY <1>1, <1>2, Members
      <3>2. CASE w.chunks[g] = m.chunks[g] /\ (Is(w, g) <=> Is(m, g))
        BY <1>1, <3>1, <3>2 DEF Binned
      <3>3. CASE Is(m, g) /\ ~Is(w, g) /\ ~w.chunks[g].used /\ w.chunks[g].bin = NoBin
        BY <3>1, <3>3
      <3> QED
        BY <1>4, <1>5, <3>1, <3>2, <3>3
    <2> QED
      BY <2>1 DEF Binned
  <1>20. Good(w, NoHandle)
    BY <1>2, <1>10, <1>11, <1>13, <1>14, <1>18, <1>19 DEF Good
  <1>21. ASSUME NEW F \in Times, Timely(m, F), NEW G, G = Reset(F, Bytes(free)) PROVE Timely(w, G)
    <2>1. \A a \in Addresses : /\ F[a] \in Nat
                               /\ G[a] = IF a \in Bytes(free) THEN 0 ELSE F[a]
      BY <1>21 DEF Reset, Times
    <2>2. w.timed = m.timed /\ w.frontier = m.frontier /\ Stamped(m, F) /\ Fresh(m, F)
      BY <1>21 DEF Without, Timely
    <2>3. ASSUME NEW a \in Addresses, \A r \in w.regions : ~Holds(r, a) PROVE G[a] = 0
      <3>1. CASE \E r \in m.regions : Holds(r, a)
        <4>1. PICK r \in m.regions : Holds(r, a)
          BY <3>1
        <4>2. r \in free
          BY <1>2, <2>3, <4>1
        <4>3. a \in r.ptr .. r.ptr + r.size - 1
          <5>1. a \in Int
            BY BFCAssumption DEF Addresses
          <5> QED
            BY <1>1, <4>1, <5>1, RegionBytes
        <4>4. a \in Bytes(free)
          BY <4>2, <4>3 DEF Bytes
        <4> QED
          BY <2>1, <4>4
      <3>2. CASE \A r \in m.regions : ~Holds(r, a)
        BY <2>1, <2>2, <3>2 DEF Fresh
      <3> QED
        BY <3>1, <3>2
    <2>4. Fresh(w, G)
      BY <2>1, <2>2, <2>3 DEF Fresh
    <2>5. Stamped(w, G)
      <3> SUFFICES ASSUME NEW g \in Handles(w), Is(w, g), ~w.chunks[g].used, NEW a \in Addresses, Covers(w, g, a)
                   PROVE  G[a] <= w.chunks[g].freed \/ G[a] < w.frontier
        BY DEF Stamped
      <3>1. Is(m, g) /\ g \in Handles(m) /\ w.chunks[g] = m.chunks[g] /\ Covers(m, g, a)
        BY <1>5, <1>12 DEF Covers
      <3>2. F[a] <= w.chunks[g].freed \/ F[a] < w.frontier
        BY <2>2, <3>1 DEF Stamped
      <3>3. w.chunks[g].freed \in Nat
        BY <1>2, Members
      <3> QED
        BY <2>1, <3>2, <3>3
    <2> QED
      BY <2>4, <2>5 DEF Timely
  <1>22. Given(m, w, Bytes(free))
    <2>1. KeptUse(m, w)
      BY <1>2, <1>15, <1>16 DEF KeptUse, SameBlock, Without
    <2> QED
      BY <1>21, <2>1 DEF Given, Without
  <1>23. Tidy(m, w)
    <2> SUFFICES ASSUME Idle(m), Merged(m, NoHandle) PROVE Idle(w) /\ Merged(w, NoHandle)
      BY DEF Tidy
    <2>1. Idle(w)
      BY DEF Idle, Without
    <2>2. ASSUME NEW g, Is(w, g) PROVE w.chunks[g].freed = 0 /\ (~w.chunks[g].used => Settled(w, g))
      <3>1. Is(m, g) /\ g \in Handles(m) /\ w.chunks[g] = m.chunks[g]
        BY <1>5, <2>2
      <3>2. PICK n : n = m.chunks[g].next
        OBVIOUS
      <3>3. n # NoHandle => n \in Handles(m)
        BY <1>1, <3>1, <3>2, Neighbours DEF Is
      <3>4. ASSUME ~m.chunks[g].used PROVE n = NoHandle \/ m.chunks[n].used
        <4>1. g # NoHandle
          BY <1>1, <3>1, Members
        <4> QED
          BY <3>1, <3>2, <3>4, <4>1 DEF Merged, Settled
      <3>5. n # NoHandle /\ m.chunks[n].used => w.chunks[n].used
        BY <1>15, <3>3
      <3>6. m.chunks[g].freed = 0
        BY <3>1 DEF Merged
      <3> QED
        BY <3>1, <3>2, <3>4, <3>5, <3>6 DEF Settled
    <2> QED
      BY <2>1, <2>2 DEF Merged
  <1> QED
    BY <1>5, <1>20, <1>22, <1>23

Shrunk(m, y) ==
  /\ Good(y.m, NoHandle) /\ Tidy(m, y.m) /\ y.ok \in BOOLEAN
  /\ ~y.ok => y.m = m
  /\ y.ok => y.m.regions # m.regions /\ Given(m, y.m, Bytes(m.regions \ y.m.regions))
  /\ \A g : Is(y.m, g) => Is(m, g) /\ y.m.chunks[g] = m.chunks[g]

(* DeallocateFreeRegions: chunks go, no chunk in use does. *)
LEMMA CollectStep ==
  ASSUME NEW m, Good(m, NoHandle), NEW n \in Nat, NEW y, y = DeallocateFreeRegions(m, n)
  PROVE  Shrunk(m, y)
  <1>1. m \in MemType /\ Filed(m) /\ Regions(m) /\ m.gc \in BOOLEAN
    BY DEF Good, MemType
  <1>2. PICK free, w : free = {r \in m.regions : RegionFree(m, r)} /\ w = DeallocateRegions(m, free)
    OBVIOUS
  <1>3. \/ y = [m |-> m, ok |-> FALSE]
        \/ free # {} /\ y = [m |-> w, ok |-> TRUE]
    BY <1>2 DEF DeallocateFreeRegions
  <1>4. CASE y = [m |-> m, ok |-> FALSE]
    BY <1>4 DEF Shrunk, Tidy
  <1>5. CASE free # {} /\ y = [m |-> w, ok |-> TRUE]
    <2>1. free \in SUBSET m.regions
      BY <1>2
    <2>2. Without(m, w, free)
      BY <1>2, <2>1, WithoutFacts
    <2>3. ASSUME NEW g, NEW r, r \in free, Is(m, g), Holds(r, m.chunks[g].ptr) PROVE ~m.chunks[g].used
      <3>1. m.chunks[g].ptr \in Int
        BY <1>1, <2>3, Members DEF Is
      <3>2. m.chunks[g].ptr \in r.ptr .. r.ptr + r.size - 1
        BY <1>1, <2>1, <2>3, <3>1, RegionBytes
      <3>3. g \in ChunksOf(m, r)
        BY <1>1, <2>3, <3>2, LiveIs DEF ChunksOf
      <3> QED
        BY <1>2, <2>3, <3>3 DEF RegionFree
    <2>4. /\ Good(w, NoHandle) /\ Given(m, w, Bytes(free)) /\ Tidy(m, w)
          /\ \A g : Is(w, g) => Is(m, g) /\ w.chunks[g] = m.chunks[g]
      BY <2>1, <2>2, <2>3, WithoutKeeps
    <2>5. w.regions = m.regions \ free
      BY <2>2 DEF Without
    <2>6. m.regions \ w.regions = free /\ w.regions # m.regions
      BY <1>5, <2>1, <2>5
    <2> QED
      BY ONLY <1>5, <2>4, <2>6 DEF Shrunk
  <1> QED
    BY <1>3, <1>4, <1>5

--------------------------------------------------------------------------------
(* AllocateRawInternal *)

(* After some attempts: nothing yet, or a chunk is taken. *)
Reached(m, x, n, before) ==
  /\ Good(x.m, NoHandle) /\ Tidy(m, x.m)
  /\ \/ x.ptr = Null /\ Kept(m, x.m)
     \/ \E v, h : Good(v, NoHandle) /\ Kept(m, v) /\ Taken(v, x.m, h, n, before) /\ x.ptr = v.chunks[h].ptr

(* No free chunk has n bytes; then Extend has failed, from m on. *)
Full(m, n) == \A h : Is(m, h) /\ ~m.chunks[h].used => m.chunks[h].size < n
Failed(m, w, n) ==
  w.hung \/ (Full(w, n) /\ NoRoom(w, n) /\ (~m.backpedal /\ w.regions = m.regions => NoSize(w, n)))

(* A chunk that was taken has an address. *)
LEMMA TakenPtr ==
  ASSUME NEW v, Good(v, NoHandle), NEW w, NEW h, NEW n, NEW before, Taken(v, w, h, n, before)
  PROVE  v.chunks[h].ptr \in Addresses /\ v.chunks[h].ptr # Null
  <1>1. v \in MemType /\ h \in Handles(v)
    BY DEF Good, Taken, Is
  <1> QED
    BY <1>1, Members, BFCAssumption DEF Addresses, Null

(* A search in what Extend or another attempt left behind. *)
LEMMA FindIfStep ==
  ASSUME NEW m, NEW e, Good(e.m, NoHandle), Kept(m, e.m), Tidy(m, e.m), e.ok \in BOOLEAN,
         NEW n \in Nat, n > 0, NEW before \in Nat, NEW y, y = FindIf(e, n, before)
  PROVE  /\ Reached(m, y, n, before)
         /\ y.ptr = Null => y.m = e.m
         /\ y.ptr = Null /\ before = 0 /\ e.ok => Full(e.m, n)
  <1>1. CASE ~e.ok
    BY <1>1 DEF FindIf, Reached
  <1>2. CASE e.ok
    <2>1. PICK v : v = e.m /\ y = FindChunkPtr(v, n, before)
      BY <1>2 DEF FindIf
    <2>2. Good(v, NoHandle) /\ Kept(m, v) /\ Tidy(m, v)
      BY <2>1
    <2>3. \/ /\ y.m = v /\ y.ptr = Null
             /\ \A h : Is(v, h) /\ ~v.chunks[h].used /\ FreedInTime(v.chunks[h], before) => v.chunks[h].size < n
          \/ /\ Good(y.m, NoHandle) /\ Tidy(v, y.m)
             /\ \E h : Taken(v, y.m, h, n, before) /\ y.ptr = v.chunks[h].ptr
      BY ONLY <2>1, <2>2, FindStep, n \in Nat, n > 0, before \in Nat
    <2>4. CASE /\ y.m = v /\ y.ptr = Null
               /\ \A h : Is(v, h) /\ ~v.chunks[h].used /\ FreedInTime(v.chunks[h], before) => v.chunks[h].size < n
      <3>1. \A c : before = 0 => FreedInTime(c, before)
        BY DEF FreedInTime
      <3>2. before = 0 => Full(v, n)
        BY ONLY <2>4, <3>1 DEF Full
      <3> QED
        BY ONLY <2>1, <2>2, <2>4, <3>2 DEF Reached
    <2>5. CASE Good(y.m, NoHandle) /\ Tidy(v, y.m) /\ \E h : Taken(v, y.m, h, n, before) /\ y.ptr = v.chunks[h].ptr
      <3>1. PICK h : Taken(v, y.m, h, n, before) /\ y.ptr = v.chunks[h].ptr
        BY <2>5
      <3>2. y.ptr # Null
        BY ONLY <2>2, <3>1, TakenPtr
      <3>3. Tidy(m, y.m)
        BY ONLY <2>2, <2>5 DEF Tidy
      <3> QED
        BY ONLY <2>2, <2>5, <3>1, <3>2, <3>3 DEF Reached
    <2> QED
      BY <2>3, <2>4, <2>5
  <1> QED
    BY <1>1, <1>2

(* Extend and the search after it. *)
LEMMA ExtendFind ==
  ASSUME NEW m, NEW v, Good(v, NoHandle), Kept(m, v), Tidy(m, v), NEW n \in Nat, n > 0, NEW q \in Nat,
         n = kMinAllocationSize * q, NEW before \in Nat, NEW y, y = FindIf(Extend(v, n), n, before)
  PROVE  /\ Reached(m, y, n, before)
         /\ y.ptr = Null /\ before = 0 /\ Full(v, n) => Failed(v, y.m, n) /\ y.m.regions = v.regions
  <1>1. PICK e : e = Extend(v, n)
    OBVIOUS
  <1>2. Extended(v, e, n)
    BY <1>1, ExtendStep
  <1>3. Good(e.m, NoHandle) /\ Kept(v, e.m) /\ e.ok \in BOOLEAN
    BY <1>2 DEF Extended
  <1>4. Kept(m, e.m) /\ Tidy(m, e.m)
    <2>1. Tidy(m, e.m)
      BY <1>2 DEF Extended, Tidy
    <2> QED
      BY <1>3, <2>1, KeptTwice
  <1>5. /\ Reached(m, y, n, before)
        /\ y.ptr = Null => y.m = e.m
        /\ y.ptr = Null /\ before = 0 /\ e.ok => Full(e.m, n)
    BY ONLY <1>1, <1>3, <1>4, FindIfStep, n \in Nat, n > 0, before \in Nat, y = FindIf(Extend(v, n), n, before)
  <1>6. ASSUME y.ptr = Null, before = 0, Full(v, n) PROVE Failed(v, y.m, n) /\ y.m.regions = v.regions
    <2>1. CASE e.ok
      <3>1. PICK h : Is(e.m, h) /\ ~e.m.chunks[h].used /\ e.m.chunks[h].size >= n
        BY <1>2, <2>1 DEF Extended
      <3>2. e.m.chunks[h].size < n
        BY <1>5, <1>6, <2>1, <3>1 DEF Full
      <3>3. e.m.chunks[h].size \in Nat
        BY <1>3, <3>1, Members DEF Good, Is
      <3> QED
        BY <3>1, <3>2, <3>3
    <2>2. CASE ~e.ok
      <3>1. SamePlaces(v, e.m) /\ Refused(v, e.m, n) /\ y.m = e.m
        BY <1>2, <1>5, <1>6, <2>2 DEF Extended
      <3>2. Full(e.m, n)
        BY <1>6, <3>1 DEF Full, SamePlaces, SameChunk, Is
      <3> QED
        BY <3>1, <3>2 DEF Failed, Refused, SamePlaces
    <2> QED
      BY <1>3, <2>1, <2>2
  <1> QED
    BY <1>5, <1>6

(* An attempt that follows others which gave nothing. *)
LEMMA TryExtendStep ==
  ASSUME NEW m, NEW n \in Nat, n > 0, NEW q \in Nat, n = kMinAllocationSize * q, NEW before \in Nat,
         NEW x, Reached(m, x, n, before), x.ptr = Null /\ before = 0 => Full(x.m, n),
         NEW y, y = TryExtend(x, n, before)
  PROVE  /\ Reached(m, y, n, before)
         /\ y.ptr = Null /\ before = 0 => x.ptr = Null /\ Failed(x.m, y.m, n) /\ y.m.regions = x.m.regions
  <1>1. CASE Done(x)
    BY <1>1 DEF TryExtend, Done, Failed
  <1>2. CASE ~Done(x)
    <2>1. PICK v : v = x.m
      OBVIOUS
    <2>2. x.ptr = Null
      BY <1>2 DEF Done
    <2>3. Good(v, NoHandle) /\ Kept(m, v) /\ Tidy(m, v)
      <3>1. ASSUME NEW u, NEW h, Good(u, NoHandle), Taken(u, x.m, h, n, before), x.ptr = u.chunks[h].ptr PROVE FALSE
        BY <2>2, <3>1, TakenPtr
      <3> QED
        BY <2>1, <3>1 DEF Reached
    <2>4. y = FindIf(Extend(v, n), n, before)
      BY <1>2, <2>1 DEF TryExtend
    <2>5. before = 0 => Full(v, n)
      BY <2>1, <2>2
    <2>6. /\ Reached(m, y, n, before)
          /\ y.ptr = Null /\ before = 0 /\ Full(v, n) => Failed(v, y.m, n) /\ y.m.regions = v.regions
      BY ONLY <2>3, <2>4, ExtendFind, n \in Nat, n > 0, q \in Nat, n = kMinAllocationSize * q, before \in Nat
    <2> QED
      BY ONLY <2>1, <2>2, <2>5, <2>6
  <1> QED
    BY <1>1, <1>2

(* The same, for MergeTimestampedChunks(rounded). *)
LEMMA TryForcedStep ==
  ASSUME NEW m, NEW n \in Nat, n > 0, NEW before \in Nat,
         NEW x, Reached(m, x, n, before), NEW y, y = TryForcedMerge(x, n, before)
  PROVE  Reached(m, y, n, before) /\ (Idle(m) /\ x.ptr = Null => y = x)
  <1>1. ASSUME x.ptr = Null PROVE Good(x.m, NoHandle) /\ Kept(m, x.m) /\ Tidy(m, x.m)
    <2>1. ASSUME NEW u, NEW h, Good(u, NoHandle), Taken(u, x.m, h, n, before), x.ptr = u.chunks[h].ptr PROVE FALSE
      BY <1>1, <2>1, TakenPtr
    <2> QED
      BY <2>1 DEF Reached
  <1>2. ASSUME Idle(m), x.ptr = Null PROVE y = x
    <2>1. x.m.timestamped = <<>>
      BY <1>1, <1>2 DEF Idle, Kept, SameMode
    <2> QED
      BY <2>1 DEF TryForcedMerge
  <1>3. CASE Done(x) \/ before # 0 \/ x.m.timestamped = <<>>
    BY <1>2, <1>3 DEF TryForcedMerge
  <1>4. CASE ~(Done(x) \/ before # 0 \/ x.m.timestamped = <<>>)
    <2>1. PICK v, e : v = x.m /\ e = MergeTimestampedChunks(x.m, n)
      OBVIOUS
    <2>2. Good(v, NoHandle) /\ Kept(m, v) /\ Tidy(m, v) /\ v.timestamped # <<>>
      BY <1>1, <1>4, <2>1 DEF Done
    <2>3. Good(e.m, NoHandle) /\ Coarser(v, e.m) /\ e.ok \in BOOLEAN
      BY <2>1, <2>2, TimestampedStep
    <2>4. Kept(m, e.m) /\ Tidy(m, e.m)
      <3>1. Kept(v, e.m)
        BY <2>2, <2>3, CoarserKept
      <3>2. Tidy(m, e.m)
        BY <2>2 DEF Tidy, Idle
      <3> QED
        BY <2>2, <3>1, <3>2, KeptTwice
    <2>5. y = FindIf(e, n, before)
      BY <1>4, <2>1 DEF TryForcedMerge
    <2>6. Reached(m, y, n, before)
      BY ONLY <2>3, <2>4, <2>5, FindIfStep, n \in Nat, n > 0, before \in Nat
    <2> QED
      BY <1>2, <2>6
  <1> QED
    BY <1>3, <1>4

(* What TryCollect starts its search from: the regions of S are gone. *)
Collected(m, u, S) == Good(u, NoHandle) /\ Given(m, u, S) /\ Tidy(m, u)

(* The same, for DeallocateFreeRegions and Extend. *)
LEMMA TryCollectStep ==
  ASSUME NEW m, Good(m, NoHandle), NEW n \in Nat, n > 0, NEW q \in Nat, n = kMinAllocationSize * q, NEW before \in Nat,
         NEW x, Reached(m, x, n, before), NEW y, y = TryCollect(x, n, before)
  PROVE  /\ \E u : Collected(m, u, Bytes(GivenBack(x, n))) /\ Reached(u, y, n, before)
         /\ /\ y.ptr = Null /\ before = 0
            /\ x.ptr = Null => Failed(m, x.m, n) /\ x.m.regions = m.regions
            => Failed(m, y.m, n)
  <1>1. Collected(m, m, Bytes({}))
    <2>1. Bytes({}) = {}
      BY DEF Bytes
    <2>2. Given(m, m, {})
      BY KeptSame, KeptGiven
    <2> QED
      BY <2>1, <2>2 DEF Collected, Tidy
  <1>2. CASE Done(x)
    <2>1. GivenBack(x, n) = {} /\ y = x
      BY <1>2 DEF GivenBack, TryCollect
    <2>2. x.ptr = Null => x.m.hung
      BY <1>2 DEF Done
    <2> QED
      BY <1>1, <2>1, <2>2 DEF Failed
  <1>3. CASE ~Done(x)
    <2>1. PICK v, d : v = x.m /\ d = DeallocateFreeRegions(x.m, n)
      OBVIOUS
    <2>2. x.ptr = Null /\ ~v.hung /\ GivenBack(x, n) = v.regions \ d.m.regions
      BY <1>3, <2>1 DEF Done, GivenBack
    <2>3. Good(v, NoHandle) /\ Kept(m, v) /\ Tidy(m, v)
      <3>1. ASSUME NEW u, NEW h, Good(u, NoHandle), Taken(u, x.m, h, n, before), x.ptr = u.chunks[h].ptr PROVE FALSE
        BY <2>2, <3>1, TakenPtr
      <3> QED
        BY <2>1, <3>1 DEF Reached
    <2>4. /\ Good(d.m, NoHandle) /\ Tidy(v, d.m) /\ d.ok \in BOOLEAN
          /\ ~d.ok => d.m = v
          /\ d.ok => d.m.regions # v.regions /\ Given(v, d.m, Bytes(v.regions \ d.m.regions))
          /\ \A g : Is(d.m, g) => Is(v, g) /\ d.m.chunks[g] = v.chunks[g]
      <3>1. d = DeallocateFreeRegions(v, n)
        BY <2>1
      <3>2. Shrunk(v, d)
        BY ONLY <2>3, <3>1, n \in Nat, CollectStep
      <3> QED
        BY ONLY <3>2 DEF Shrunk
    <2>5. y = FindIf(ExtendIf(d, n), n, before)
      BY <1>3, <2>1 DEF TryCollect
    <2>6. CASE d.ok
      <3>1. PICK u : u = d.m
        OBVIOUS
      <3>2. Collected(m, u, Bytes(GivenBack(x, n)))
        <4>1. Given(m, u, Bytes(GivenBack(x, n)))
          BY <2>2, <2>3, <2>4, <2>6, <3>1, KeptGiven
        <4>2. Tidy(m, u)
          BY <2>3, <2>4, <3>1 DEF Tidy
        <4> QED
          BY <2>4, <3>1, <4>1, <4>2 DEF Collected
      <3>3. Good(u, NoHandle) /\ Kept(u, u) /\ Tidy(u, u)
        BY <2>4, <3>1, KeptSame DEF Tidy
      <3>4. y = FindIf(Extend(u, n), n, before)
        BY <2>5, <2>6, <3>1 DEF ExtendIf
      <3>5. /\ Reached(u, y, n, before)
            /\ y.ptr = Null /\ before = 0 /\ Full(u, n) => Failed(u, y.m, n) /\ y.m.regions = u.regions
        BY ONLY <3>3, <3>4, ExtendFind, n \in Nat, n > 0, q \in Nat, n = kMinAllocationSize * q, before \in Nat
      <3>6. Full(v, n) => Full(u, n)
        BY <2>4, <3>1 DEF Full
      <3>7. ASSUME y.ptr = Null, before = 0, Failed(m, v, n), v.regions = m.regions PROVE Failed(m, y.m, n)
        <4>1. Full(u, n)
          BY <2>2, <3>6, <3>7 DEF Failed
        <4>2. Failed(u, y.m, n) /\ y.m.regions # m.regions
          BY <2>4, <2>6, <3>1, <3>5, <3>7, <4>1
        <4> QED
          BY <4>2 DEF Failed
      <3> QED
        BY <2>1, <2>2, <3>2, <3>5, <3>7
    <2>7. CASE ~d.ok
      <3>1. y = [m |-> v, ptr |-> Null]
        BY <2>4, <2>5, <2>7 DEF ExtendIf, FindIf
      <3>2. GivenBack(x, n) = {}
        BY <2>2, <2>4, <2>7
      <3>3. Reached(m, y, n, before)
        BY <2>3, <3>1 DEF Reached
      <3>4. Collected(m, m, Bytes(GivenBack(x, n)))
        BY <1>1, <3>2
      <3>5. y.m = x.m /\ x.ptr = Null
        BY <2>1, <2>2, <3>1
      <3> QED
        BY <3>3, <3>4, <3>5
    <2> QED
      BY <2>4, <2>6, <2>7
  <1> QED
    BY <1>2, <1>3

(* AllocateRawInternal takes a free chunk that fits; without a timing counter *)
(* it fails only if there is none and no room for one.                        *)
LEMMA AllocateStep ==
  ASSUME NEW m, Good(m, NoHandle), NEW n \in Nat, n > 0, NEW q \in Nat, n = kMinAllocationSize * q, NEW before \in Nat,
         NEW x, x = FirstAttempts(m, n, before), NEW y, y = TryCollect(x, n, before)
  PROVE  /\ \E u : Collected(m, u, Bytes(GivenBack(x, n))) /\ Reached(u, y, n, before)
         /\ Idle(m) /\ before = 0 /\ y.ptr = Null => Failed(m, y.m, n)
  <1>1. PICK e : e = MergeTimestampedChunks(m, 0)
    OBVIOUS
  <1>2. PICK w : w = e.m
    OBVIOUS
  <1>3. PICK f1 : f1 = FindChunkPtr(w, n, before)
    OBVIOUS
  <1>4. PICK f2 : f2 = TryExtend(f1, n, before)
    OBVIOUS
  <1>5. x = TryForcedMerge(f2, n, before)
    BY <1>1, <1>2, <1>3, <1>4 DEF FirstAttempts
  <1>6. Good(w, NoHandle) /\ Kept(m, w) /\ Tidy(m, w) /\ (Idle(m) => w = m)
    <2>1. /\ Good(e.m, NoHandle) /\ Coarser(m, e.m)
          /\ m.timestamped = <<>> => e.m = m
      BY <1>1, TimestampedStep
    <2>2. Kept(m, w)
      BY <1>2, <2>1, CoarserKept
    <2>3. Idle(m) => w = m
      BY <1>2, <2>1 DEF Idle
    <2> QED
      BY <1>2, <2>1, <2>2, <2>3 DEF Tidy
  <1>7. /\ Reached(m, f1, n, before)
        /\ f1.ptr = Null => f1.m = w
        /\ f1.ptr = Null /\ before = 0 => Full(f1.m, n)
    <2>1. PICK z : z = [m |-> w, ok |-> TRUE]
      OBVIOUS
    <2>2. z.m = w /\ z.ok = TRUE
      BY <2>1
    <2>3. f1 = FindIf(z, n, before)
      BY <1>3, <2>2 DEF FindIf
    <2>4. Good(z.m, NoHandle) /\ Kept(m, z.m) /\ Tidy(m, z.m)
      BY <1>6, <2>2
    <2>5. /\ Reached(m, f1, n, before)
          /\ f1.ptr = Null => f1.m = z.m
          /\ f1.ptr = Null /\ before = 0 /\ z.ok => Full(z.m, n)
      <3>1. z.ok \in BOOLEAN
        BY <2>2
      <3> QED
        BY ONLY <2>3, <2>4, <3>1, FindIfStep, n \in Nat, n > 0, before \in Nat
    <2> QED
      BY <2>2, <2>5
  <1>8. /\ Reached(m, f2, n, before)
        /\ f2.ptr = Null /\ before = 0 => f1.ptr = Null /\ Failed(f1.m, f2.m, n) /\ f2.m.regions = f1.m.regions
    BY ONLY <1>4, <1>7, TryExtendStep, n \in Nat, n > 0, q \in Nat, n = kMinAllocationSize * q, before \in Nat
  <1>9. Reached(m, x, n, before) /\ (Idle(m) /\ f2.ptr = Null => x = f2)
    BY ONLY <1>5, <1>8, TryForcedStep, n \in Nat, n > 0, before \in Nat
  <1>10. /\ \E u : Collected(m, u, Bytes(GivenBack(x, n))) /\ Reached(u, y, n, before)
         /\ /\ y.ptr = Null /\ before = 0
            /\ x.ptr = Null => Failed(m, x.m, n) /\ x.m.regions = m.regions
            => Failed(m, y.m, n)
    BY ONLY <1>9, Good(m, NoHandle), TryCollectStep, n \in Nat, n > 0, q \in Nat, n = kMinAllocationSize * q, before \in Nat,
            y = TryCollect(x, n, before)
  <1>11. ASSUME Idle(m), before = 0, x.ptr = Null PROVE Failed(m, x.m, n) /\ x.m.regions = m.regions
    <2>1. CASE f2.ptr = Null
      BY <1>6, <1>7, <1>8, <1>9, <1>11, <2>1
    <2>2. CASE f2.ptr # Null
      BY <1>5, <1>11, <2>2 DEF TryForcedMerge, Done
    <2> QED
      BY <2>1, <2>2
  <1> QED
    BY <1>10, <1>11

--------------------------------------------------------------------------------
(* The blocks of the clients *)

BlockType == [ptr : Addresses \cup {Null}, size : Nat, before : Nat]

(* A client's block is a chunk in use, and nobody else's; every chunk in use is *)
(* some client's block.                                                         *)
Block(m, b) ==
  LET h == m.handle[b.ptr] IN
  /\ b.ptr \in Addresses /\ h # NoHandle
  /\ m.chunks[h].used /\ m.chunks[h].size >= b.size
Owned(m, B) ==
  /\ \A c \in Clients : B[c] # NoBlock => Block(m, B[c])
  /\ \A c, d \in Clients : B[c] # NoBlock /\ B[d] # NoBlock /\ B[c].ptr = B[d].ptr => c = d
  /\ \A h \in Handles(m) : m.chunks[h].used => \E c \in Clients : B[c] # NoBlock /\ B[c].ptr = m.chunks[h].ptr

(* What a client asked for, freed by the time `before', was: F is freed_at. *)
InTime(m, B, F) ==
  \A c \in Clients, a \in Addresses :
    B[c] # NoBlock /\ B[c].before > 0 /\ Covers(m, m.handle[B[c].ptr], a) => F[a] <= B[c].before \/ F[a] < m.frontier

(* The chunk of a block. *)
LEMMA BlockChunk ==
  ASSUME NEW m, Good(m, NoHandle), NEW b, Block(m, b), NEW h, h = m.handle[b.ptr]
  PROVE  h \in Handles(m) /\ Is(m, h) /\ m.chunks[h].used /\ m.chunks[h].ptr = b.ptr /\ m.chunks[h].size >= b.size
  <1>1. m.handle[b.ptr] # NoHandle /\ b.ptr \in Addresses /\ m.chunks[h].used /\ m.chunks[h].size >= b.size
    BY DEF Block
  <1>2. h \in Handles(m) /\ m.chunks[h].ptr = b.ptr
    BY <1>1 DEF Good, Filed
  <1> QED
    BY <1>1, <1>2 DEF Is

SameBytes(m, w, h) == \A a : Covers(w, h, a) <=> Covers(m, h, a)

(* A chunk in use that is where it was holds the block it held. *)
LEMMA BlockKept ==
  ASSUME NEW m, Good(m, NoHandle), NEW w, Good(w, NoHandle), NEW b, Block(m, b),
         NEW h, h = m.handle[b.ptr], h \in Handles(w), SameBlock(m, w, h)
  PROVE  Block(w, b) /\ w.handle[b.ptr] = h /\ SameBytes(m, w, h)
  <1>1. h \in Handles(m) /\ m.chunks[h].ptr = b.ptr /\ m.chunks[h].size >= b.size
    BY BlockChunk
  <1>2. b.ptr \in Addresses
    BY DEF Block
  <1>3. w.chunks[h].used /\ w.chunks[h].ptr = b.ptr /\ w.chunks[h].size = m.chunks[h].size
    BY <1>1 DEF SameBlock
  <1>4. Is(w, h) /\ h # NoHandle
    BY <1>3, Members DEF Good, Binned
  <1>5. w.handle[b.ptr] = h
    BY <1>3, <1>4 DEF Is
  <1>6. SameBytes(m, w, h)
    BY <1>1, <1>3 DEF Fin, Covers, SameBytes
  <1> QED
    BY <1>1, <1>2, <1>3, <1>4, <1>5, <1>6 DEF Block

(* What keeps the chunks in use keeps the blocks. *)
LEMMA KeptBlocks ==
  ASSUME NEW m, Good(m, NoHandle), NEW w, Good(w, NoHandle), KeptUse(m, w), NEW B, Owned(m, B)
  PROVE  /\ Owned(w, B)
         /\ \A F \in Times : InTime(m, B, F) => InTime(w, B, F)
  <1>1. ASSUME NEW c \in Clients, B[c] # NoBlock
        PROVE  Block(w, B[c]) /\ w.handle[B[c].ptr] = m.handle[B[c].ptr]
               /\ \A a : Covers(w, w.handle[B[c].ptr], a) <=> Covers(m, m.handle[B[c].ptr], a)
    <2>1. PICK h : h = m.handle[B[c].ptr]
      OBVIOUS
    <2>2. Block(m, B[c])
      BY <1>1 DEF Owned
    <2>3. h \in Handles(m) /\ m.chunks[h].used
      BY <1>1, <2>1, <2>2, BlockChunk
    <2>4. h \in Handles(w) /\ SameBlock(m, w, h)
      BY <2>3 DEF KeptUse
    <2>5. Block(w, B[c]) /\ w.handle[B[c].ptr] = h /\ SameBytes(m, w, h)
      BY <2>1, <2>2, <2>4, BlockKept
    <2> QED
      BY <2>1, <2>5 DEF SameBytes
  <1>2. ASSUME NEW h \in Handles(w), w.chunks[h].used
        PROVE  \E c \in Clients : B[c] # NoBlock /\ B[c].ptr = w.chunks[h].ptr
    <2>1. h \in Handles(m) /\ m.chunks[h].used
      BY <1>2 DEF KeptUse
    <2>2. w.chunks[h].ptr = m.chunks[h].ptr
      BY <2>1 DEF KeptUse, SameBlock
    <2> QED
      BY <2>1, <2>2 DEF Owned
  <1>3. \A c, d \in Clients : B[c] # NoBlock /\ B[d] # NoBlock /\ B[c].ptr = B[d].ptr => c = d
    BY DEF Owned
  <1>4. Owned(w, B)
    BY <1>1, <1>2, <1>3 DEF Owned
  <1>5. w.frontier = m.frontier
    BY DEF KeptUse
  <1>6. \A F \in Times : InTime(m, B, F) => InTime(w, B, F)
    BY <1>1, <1>5 DEF InTime
  <1> QED
    BY <1>4, <1>6

GivenTo(B, C, c, p, q, before) == C = [B EXCEPT ![c] = [ptr |-> p, size |-> q, before |-> before]]

(* A chunk that is taken becomes the block of its client. *)
LEMMA TakenBlocks ==
  ASSUME NEW m, Good(m, NoHandle), NEW w, Good(w, NoHandle), NEW n, NEW q \in Nat, q <= n, NEW before \in Nat, NEW h,
         n \in Nat, Taken(m, w, h, n, before), NEW B \in [Clients -> BlockType], Owned(m, B),
         NEW c \in Clients, B[c] = NoBlock, NEW C, GivenTo(B, C, c, m.chunks[h].ptr, q, before)
  PROVE  /\ C \in [Clients -> BlockType] /\ Owned(w, C)
         /\ \A F \in Times : Timely(m, F) /\ InTime(m, B, F) => InTime(w, C, F)
  <1>0. PICK b : b = [ptr |-> m.chunks[h].ptr, size |-> q, before |-> before] /\ C = [B EXCEPT ![c] = b]
    BY DEF GivenTo
  <1>1. h \in Handles(m) /\ Is(m, h) /\ ~m.chunks[h].used /\ m.chunks[h].ptr \in Addresses /\ m.chunks[h].ptr # Null
    BY TakenPtr DEF Taken, Is
  <1>2. b \in BlockType /\ b # NoBlock /\ b.ptr = m.chunks[h].ptr /\ b.size = q /\ b.before = before
    BY <1>0, <1>1 DEF BlockType, NoBlock
  <1>3. C \in [Clients -> BlockType] /\ C[c] = b /\ \A d \in Clients : d # c => C[d] = B[d]
    BY <1>0, <1>2
  <1>4. /\ w.chunks[h].used /\ w.chunks[h].ptr = m.chunks[h].ptr /\ n <= w.chunks[h].size /\ w.chunks[h].size <= m.chunks[h].size
        /\ h \in Handles(w) /\ w.frontier = m.frontier
    BY <1>1 DEF Taken, SameMode
  <1>5. Is(w, h) /\ h # NoHandle /\ w.chunks[h].size \in Nat /\ m.chunks[h].size \in Nat /\ m.chunks[h].ptr \in Int
    BY <1>1, <1>4, Members DEF Good, Binned
  <1>6. w.handle[b.ptr] = h
    BY <1>2, <1>4, <1>5 DEF Is
  <1>7. Block(w, C[c]) /\ w.handle[C[c].ptr] = h
    <2>1. Block(w, b)
      <3>1. w.chunks[h].size >= b.size
        BY <1>2, <1>4, <1>5
      <3> QED
        BY ONLY <1>1, <1>2, <1>4, <1>5, <1>6, <3>1 DEF Block
    <2> QED
      BY ONLY <1>3, <1>6, <2>1
  <1>8. ASSUME NEW d \in Clients, d # c, C[d] # NoBlock
        PROVE  /\ Block(w, C[d]) /\ C[d].ptr # b.ptr /\ C[d] = B[d]
               /\ \A a : Covers(w, w.handle[C[d].ptr], a) <=> Covers(m, m.handle[B[d].ptr], a)
    <2>1. C[d] = B[d] /\ B[d] # NoBlock /\ Block(m, B[d])
      BY <1>3, <1>8 DEF Owned
    <2>2. PICK g : g = m.handle[B[d].ptr]
      OBVIOUS
    <2>3. g \in Handles(m) /\ m.chunks[g].used /\ m.chunks[g].ptr = B[d].ptr
      BY <2>1, <2>2, BlockChunk
    <2>4. g \in Handles(w) /\ SameBlock(m, w, g)
      BY <2>3 DEF Taken
    <2>5. Block(w, B[d]) /\ w.handle[B[d].ptr] = g /\ SameBytes(m, w, g)
      BY ONLY <2>1, <2>2, <2>4, Good(m, NoHandle), Good(w, NoHandle), BlockKept
    <2>6. B[d].ptr # b.ptr
      BY <1>1, <1>2, <2>2, <2>3 DEF Is
    <2> QED
      BY ONLY <2>1, <2>2, <2>5, <2>6 DEF SameBytes
  <1>9. ASSUME NEW g \in Handles(w), w.chunks[g].used
        PROVE  \E d \in Clients : C[d] # NoBlock /\ C[d].ptr = w.chunks[g].ptr
    <2>1. CASE g = h
      BY <1>2, <1>3, <1>4, <2>1
    <2>2. CASE g # h
      <3>1. g \in Handles(m) /\ m.chunks[g].used /\ w.chunks[g].ptr = m.chunks[g].ptr
        BY <1>9, <2>2 DEF Taken, SameBlock
      <3>2. PICK d \in Clients : B[d] # NoBlock /\ B[d].ptr = m.chunks[g].ptr
        BY <3>1 DEF Owned
      <3> QED
        BY <1>3, <3>1, <3>2
    <2> QED
      BY <2>1, <2>2
  <1>10. ASSUME NEW d \in Clients, NEW e \in Clients, C[d] # NoBlock, C[e] # NoBlock, C[d].ptr = C[e].ptr PROVE d = e
    <2>1. CASE d # c /\ e # c
      BY <1>3, <1>10, <2>1 DEF Owned
    <2>2. CASE d = c \/ e = c
      BY <1>3, <1>8, <1>10, <2>2
    <2> QED
      BY <2>1, <2>2
  <1>11. Owned(w, C)
    BY <1>3, <1>7, <1>8, <1>9, <1>10 DEF Owned
  <1>12. ASSUME NEW F \in Times, Timely(m, F), InTime(m, B, F) PROVE InTime(w, C, F)
    <2> SUFFICES ASSUME NEW d \in Clients, NEW a \in Addresses, C[d] # NoBlock, C[d].before > 0, Covers(w, w.handle[C[d].ptr], a)
                 PROVE  F[a] <= C[d].before \/ F[a] < w.frontier
      BY DEF InTime
    <2>1. CASE d # c
      BY <1>4, <1>8, <1>12, <2>1 DEF InTime
    <2>2. CASE d = c
      <3>1. Covers(w, h, a) /\ C[d].before = before /\ before > 0 /\ a \in Int
        BY <1>2, <1>3, <1>7, <2>2, BFCAssumption DEF Addresses
      <3>2. Covers(m, h, a)
        BY <1>4, <1>5, <3>1 DEF Covers, Fin
      <3>3. F[a] <= m.chunks[h].freed \/ F[a] < m.frontier
        BY <1>1, <1>12, <3>2 DEF Timely, Stamped
      <3>4. ~(before < m.chunks[h].freed) /\ m.chunks[h].freed \in Nat /\ F[a] \in Nat
        BY <1>1, <1>12, <3>1, Members DEF Taken, FreedInTime, Times, Good
      <3> QED
        BY <1>4, <3>1, <3>3, <3>4
    <2> QED
      BY <2>1, <2>2
  <1> QED
    BY <1>3, <1>11, <1>12

(* The end of DeallocateRaw: the chunk in hand is coalesced, or waits for its time. *)
LEMMA BackStep ==
  ASSUME NEW v, NEW h, Good(v, h), Is(v, h), ~v.chunks[h].used, NEW w,
         w = IF v.timed THEN [InsertFreeChunkIntoBin(v, h) EXCEPT !.timestamped = Append(@, h)]
             ELSE InsertFreeChunkIntoBin(TryToCoalesce(v, h, FALSE).m, TryToCoalesce(v, h, FALSE).h)
  PROVE  /\ Good(w, NoHandle) /\ Coarser(v, w)
         /\ ~v.timed => w.timestamped = v.timestamped /\ (Merged(v, h) => Merged(w, NoHandle))
  <1>0. v.timed \in BOOLEAN
    BY DEF Good, MemType
  <1>1. CASE v.timed
    <2>1. PICK u : u = InsertFreeChunkIntoBin(v, h)
      OBVIOUS
    <2>2. IntoBin(v, u, h)
      BY ONLY <2>1, Good(v, h), Is(v, h), ~v.chunks[h].used, InsertStep
    <2>3. Good(u, NoHandle) /\ Coarser(v, u) /\ Is(u, h)
      BY <2>2 DEF IntoBin
    <2>4. PICK s : s = Append(u.timestamped, h)
      OBVIOUS
    <2>5. s \in Seq(Handles(u))
      <3>1. u.timestamped \in Seq(Nat) /\ Len(u.timestamped) \in Nat
        BY <2>3, Members DEF Good
      <3>2. \A i \in 1 .. Len(u.timestamped) : u.timestamped[i] \in Handles(u)
        BY <2>3 DEF Good, Filed
      <3>3. u.timestamped \in Seq(Handles(u))
        BY <3>1, <3>2
      <3> QED
        BY <2>3, <2>4, <3>3 DEF Is
    <2>6. w = [u EXCEPT !.timestamped = s]
      BY <1>1, <2>1, <2>4
    <2>7. Good(w, NoHandle) /\ Coarser(u, w)
      BY ONLY <2>3, <2>5, <2>6, ListStep
    <2> QED
      BY <1>1, <2>3, <2>7, CoarserTwice
  <1>2. CASE ~v.timed
    <2>1. PICK t : t = TryToCoalesce(v, h, FALSE)
      OBVIOUS
    <2>2. /\ Good(t.m, t.h) /\ Is(t.m, t.h) /\ ~t.m.chunks[t.h].used
          /\ Coarser(v, t.m) /\ t.m.timestamped = v.timestamped
          /\ Merged(v, h) => Merged(t.m, NoHandle)
      <3>1. PICK ign : ign = FALSE
        OBVIOUS
      <3>2. ign \in BOOLEAN /\ t = TryToCoalesce(v, h, ign)
        BY <2>1, <3>1
      <3> QED
        BY ONLY <3>2, Good(v, h), Is(v, h), ~v.chunks[h].used, CoalesceStep
    <2>3. PICK u, g : u = t.m /\ g = t.h
      OBVIOUS
    <2>4. w = InsertFreeChunkIntoBin(u, g)
      BY <1>2, <2>1, <2>3
    <2>5. /\ Good(u, g) /\ Is(u, g) /\ ~u.chunks[g].used /\ Coarser(v, u) /\ u.timestamped = v.timestamped
          /\ Merged(v, h) => Merged(u, NoHandle)
      BY <2>2, <2>3
    <2>6. IntoBin(u, w, g)
      BY ONLY <2>4, <2>5, InsertStep
    <2>7. Good(w, NoHandle) /\ Coarser(u, w) /\ w.timestamped = u.timestamped /\ (Merged(u, NoHandle) => Merged(w, NoHandle))
      BY <2>6 DEF IntoBin
    <2> QED
      BY <2>5, <2>7, CoarserTwice
  <1> QED
    BY <1>0, <1>1, <1>2

(* When the bytes of the chunk h were freed last: now. *)
FreedNow(m, h, now, F) == [a \in Addresses |-> IF Covers(m, h, a) THEN now ELSE F[a]]

(* The block of a client is free again, at the time `now'. *)
LEMMA FreedBlocks ==
  ASSUME NEW m, Good(m, NoHandle), NEW B \in [Clients -> BlockType], Owned(m, B), NEW c \in Clients, B[c] # NoBlock,
         NEW h, h = m.handle[B[c].ptr], NEW now \in Nat, ~m.timed => now = 0, NEW f \in Nat, m.timed => f = now,
         NEW v, UnusedTo(m, v, h, f), NEW w, Good(w, NoHandle), Coarser(v, w), NEW C, C = [B EXCEPT ![c] = NoBlock]
  PROVE  /\ C \in [Clients -> BlockType] /\ Owned(w, C)
         /\ \A F \in Times : /\ FreedNow(m, h, now, F) \in Times
                             /\ Timely(m, F) => Timely(w, FreedNow(m, h, now, F))
                             /\ InTime(m, B, F) => InTime(w, C, FreedNow(m, h, now, F))
  <1>1. Block(m, B[c]) /\ \A d \in Clients : B[d] # NoBlock => Block(m, B[d])
    BY DEF Owned
  <1>2. h \in Handles(m) /\ Is(m, h) /\ m.chunks[h].used /\ m.chunks[h].ptr = B[c].ptr
    BY <1>1, BlockChunk
  <1>3. NoBlock \in BlockType
    BY DEF NoBlock, BlockType
  <1>4. C \in [Clients -> BlockType] /\ C[c] = NoBlock /\ \A d \in Clients : d # c => C[d] = B[d]
    BY <1>3
  <1>5. /\ v \in MemType /\ Handles(v) = Handles(m) /\ v.handle = m.handle /\ v.regions = m.regions
        /\ v.gc = m.gc /\ v.timed = m.timed /\ v.frontier = m.frontier /\ ~v.chunks[h].used /\ v.chunks[h].freed = f
        /\ \A g : Is(v, g) <=> Is(m, g)
        /\ \A g \in Handles(m) : /\ v.chunks[g].ptr = m.chunks[g].ptr /\ v.chunks[g].size = m.chunks[g].size
                                 /\ g # h => v.chunks[g] = m.chunks[g]
    BY DEF UnusedTo, SameButUse
  <1>6. \A g \in Handles(m) : g # h /\ m.chunks[g].used => g \in Handles(w) /\ SameBlock(m, w, g)
    BY <1>5 DEF Coarser, SameBlock
  <1>7. \A g \in Handles(w) : w.chunks[g].used => g \in Handles(m) /\ g # h /\ m.chunks[g].used
    BY <1>5 DEF Coarser
  <1>8. ASSUME NEW d \in Clients, C[d] # NoBlock
        PROVE  /\ d # c /\ C[d] = B[d] /\ B[d] # NoBlock /\ Block(w, C[d])
               /\ \E g \in Handles(m) : /\ g = m.handle[B[d].ptr] /\ g = w.handle[C[d].ptr] /\ g # h /\ Is(m, g)
                                        /\ SameBytes(m, w, g)
    <2>1. d # c /\ C[d] = B[d] /\ B[d] # NoBlock
      BY <1>4, <1>8
    <2>2. PICK g : g = m.handle[B[d].ptr]
      OBVIOUS
    <2>3. g \in Handles(m) /\ m.chunks[g].used /\ m.chunks[g].ptr = B[d].ptr /\ Is(m, g) /\ Block(m, B[d])
      BY <1>1, <2>1, <2>2, BlockChunk
    <2>4. B[d].ptr # B[c].ptr
      BY <2>1 DEF Owned
    <2>5. g # h
      BY <1>2, <2>3, <2>4
    <2>6. g \in Handles(w) /\ SameBlock(m, w, g)
      BY <1>6, <2>3, <2>5
    <2>7. Block(w, B[d]) /\ w.handle[B[d].ptr] = g /\ SameBytes(m, w, g)
      BY ONLY <2>2, <2>3, <2>6, Good(m, NoHandle), Good(w, NoHandle), BlockKept
    <2> QED
      BY ONLY <2>1, <2>2, <2>3, <2>5, <2>7
  <1>9. ASSUME NEW g \in Handles(w), w.chunks[g].used
        PROVE  \E d \in Clients : C[d] # NoBlock /\ C[d].ptr = w.chunks[g].ptr
    <2>1. g \in Handles(m) /\ g # h /\ m.chunks[g].used /\ w.chunks[g].ptr = m.chunks[g].ptr /\ Is(m, g)
      BY <1>6, <1>7, <1>9 DEF SameBlock, Good, Binned
    <2>2. PICK d \in Clients : B[d] # NoBlock /\ B[d].ptr = m.chunks[g].ptr
      BY <2>1 DEF Owned
    <2>3. d # c
      BY <2>1, <2>2 DEF Is
    <2> QED
      BY <1>4, <2>1, <2>2, <2>3
  <1>10. \A d, e \in Clients : C[d] # NoBlock /\ C[e] # NoBlock /\ C[d].ptr = C[e].ptr => d = e
    BY <1>8 DEF Owned
  <1>11. Owned(w, C)
    BY <1>8, <1>9, <1>10 DEF Owned
  <1>12. w.gc = m.gc /\ w.timed = m.timed /\ w.frontier = m.frontier /\ w.regions = m.regions /\ m.timed \in BOOLEAN
    BY <1>5 DEF Coarser, SameRest, Good, MemType
  <1>13. ASSUME NEW g, Is(m, g), g # h, NEW a \in Addresses, Covers(m, g, a) PROVE ~Covers(m, h, a)
    <2>1. Fin(m, g) <= m.chunks[h].ptr \/ Fin(m, h) <= m.chunks[g].ptr
      BY <1>2, <1>13 DEF Good, Tiled, Is
    <2>2. /\ m.chunks[g].ptr \in Int /\ m.chunks[h].ptr \in Int /\ Fin(m, g) \in Int /\ Fin(m, h) \in Int /\ a \in Int
      BY SMTT(30), <1>2, <1>13, ChunkInRegion, BFCAssumption DEF Good, Addresses
    <2> QED
      BY <1>13, <2>1, <2>2 DEF Covers
  <1>14. ASSUME NEW F \in Times, NEW G, G = FreedNow(m, h, now, F)
         PROVE  /\ G \in Times
                /\ Timely(m, F) => Timely(w, G)
                /\ InTime(m, B, F) => InTime(w, C, G)
    <2>1. G \in Times /\ \A a \in Addresses : G[a] = IF Covers(m, h, a) THEN now ELSE F[a]
      BY <1>14 DEF FreedNow, Times
    <2>2. ASSUME Timely(m, F) PROVE Timely(w, G)
      <3>1. Stamped(m, F) /\ Fresh(m, F)
        BY <2>2 DEF Timely
      <3>2. ~m.timed => \A a \in Addresses : G[a] = 0
        BY <2>1, <3>1 DEF Fresh
      <3>3. ASSUME NEW a \in Addresses, \A r \in m.regions : ~Holds(r, a) PROVE G[a] = 0
        <4>1. ~Covers(m, h, a)
          <5>1. PICK r \in m.regions : Holds(r, m.chunks[h].ptr) /\ Fin(m, h) <= RegionEnd(r)
            BY <1>2, ChunkInRegion DEF Good
          <5>2. /\ r.ptr \in Int /\ RegionEnd(r) \in Int /\ m.chunks[h].ptr \in Int /\ Fin(m, h) \in Int /\ a \in Int
            <6>1. m \in MemType /\ Regions(m) /\ Linked(m)
              BY DEF Good
            <6>2. m.chunks[h].ptr \in Int /\ Fin(m, h) \in Int
              BY <1>2, <6>1, ChunkInRegion
            <6> QED
              BY <6>1, <6>2, Members, BFCAssumption DEF RegionEnd, Addresses
          <5>3. ~Holds(r, a)
            BY <3>3
          <5> QED
            BY <5>1, <5>2, <5>3 DEF Covers, Holds
        <4> QED
          BY <2>1, <3>1, <3>3, <4>1 DEF Fresh
      <3>4. Fresh(w, G)
        BY <1>12, <3>2, <3>3 DEF Fresh
      <3>5. Stamped(v, G)
        <4> SUFFICES ASSUME NEW g \in Handles(v), Is(v, g), ~v.chunks[g].used, NEW a \in Addresses, Covers(v, g, a)
                     PROVE  G[a] <= v.chunks[g].freed \/ G[a] < v.frontier
          BY DEF Stamped
        <4>1. g \in Handles(m) /\ Is(m, g) /\ Covers(m, g, a)
          BY <1>5 DEF Covers, Fin
        <4>2. CASE g = h
          <5>1. G[a] = now /\ v.chunks[g].freed = f
            BY <1>5, <2>1, <4>1, <4>2
          <5>2. CASE m.timed
            BY <5>1, <5>2
          <5>3. CASE ~m.timed
            BY <5>1, <5>3
          <5> QED
            BY <1>12, <5>2, <5>3
        <4>3. CASE g # h
          <5>1. G[a] = F[a] /\ v.chunks[g] = m.chunks[g]
            BY <1>5, <1>13, <2>1, <4>1, <4>3
          <5> QED
            BY <1>5, <3>1, <4>1, <5>1 DEF Stamped
        <4> QED
          BY <4>2, <4>3
      <3>6. Stamped(w, G)
        BY <2>1, <3>5 DEF Coarser
      <3> QED
        BY <1>12, <3>1, <3>4, <3>6 DEF Timely
    <2>3. ASSUME InTime(m, B, F) PROVE InTime(w, C, G)
      <3> SUFFICES ASSUME NEW d \in Clients, NEW a \in Addresses, C[d] # NoBlock, C[d].before > 0, Covers(w, w.handle[C[d].ptr], a)
                   PROVE  G[a] <= C[d].before \/ G[a] < w.frontier
        BY DEF InTime
      <3>1. PICK g \in Handles(m) : /\ g = m.handle[B[d].ptr] /\ g = w.handle[C[d].ptr] /\ g # h /\ Is(m, g)
                                    /\ SameBytes(m, w, g)
        BY <1>8
      <3>2. Covers(m, g, a)
        BY <3>1 DEF SameBytes
      <3>3. G[a] = F[a]
        BY <1>13, <2>1, <3>1, <3>2
      <3>4. C[d] = B[d] /\ B[d] # NoBlock
        BY <1>8
      <3> QED
        BY <1>12, <2>3, <3>1, <3>2, <3>3, <3>4 DEF InTime
    <2> QED
      BY <2>1, <2>2, <2>3
  <1> QED
    BY <1>4, <1>11, <1>14

(* SetSafeFrontier: what was safe still is. *)
LEMMA FrontierStep ==
  ASSUME NEW m, Good(m, NoHandle), NEW n \in Nat, n > m.frontier, NEW w, w = [m EXCEPT !.frontier = n],
         NEW B, Owned(m, B)
  PROVE  /\ Good(w, NoHandle) /\ Owned(w, B) /\ w.timestamped = m.timestamped /\ w.timed = m.timed
         /\ Merged(m, NoHandle) => Merged(w, NoHandle)
         /\ \A F \in Times : Timely(m, F) /\ InTime(m, B, F) => Timely(w, F) /\ InTime(w, B, F)
  <1>1. m \in MemType
    BY DEF Good
  <1>2. /\ w \in MemType /\ w.chunks = m.chunks /\ w.handle = m.handle /\ w.spare = m.spare
        /\ w.timestamped = m.timestamped /\ w.regions = m.regions /\ w.total = m.total /\ w.in_use = m.in_use
        /\ w.gc = m.gc /\ w.timed = m.timed /\ w.frontier = n
    BY <1>1 DEF MemType
  <1>3. Handles(w) = Handles(m) /\ \A g : SameChunk(m, w, g)
    BY <1>2 DEF Handles, SameChunk
  <1>4. SamePlaces(m, w)
    BY <1>2, <1>3 DEF SamePlaces
  <1>5. /\ \A g : Is(w, g) <=> Is(m, g)
        /\ UsedBytes(w) = UsedBytes(m) /\ Regions(w) /\ Linked(w) /\ Tiled(w)
    BY <1>1, <1>2, <1>4, PlacesKept DEF Good
  <1>6. Filed(w)
    BY ONLY <1>2, <1>3, <1>5, Good(m, NoHandle) DEF Good, Filed
  <1>7. Binned(w, NoHandle)
    BY ONLY <1>2, <1>3, <1>5, Good(m, NoHandle) DEF Good, Binned
  <1>8. Counted(w)
    BY ONLY <1>2, <1>5, Good(m, NoHandle) DEF Good, Counted
  <1>9. Good(w, NoHandle)
    BY <1>2, <1>5, <1>6, <1>7, <1>8 DEF Good
  <1>10. Owned(w, B)
    BY ONLY SMTT(30), <1>2, <1>3, Owned(m, B) DEF Owned, Block
  <1>11. \A g, a : Covers(w, g, a) <=> Covers(m, g, a)
    BY <1>2 DEF Covers, Fin
  <1>12. ASSUME NEW F \in Times, Timely(m, F), InTime(m, B, F) PROVE Timely(w, F) /\ InTime(w, B, F)
    <2>1. \A a \in Addresses : F[a] \in Nat /\ (F[a] < m.frontier => F[a] < w.frontier)
      BY <1>1, <1>2, Members DEF Times
    <2>2. Stamped(w, F)
      BY <1>2, <1>3, <1>5, <1>11, <1>12, <2>1 DEF Timely, Stamped
    <2>3. Fresh(w, F)
      BY <1>2, <1>12 DEF Timely, Fresh
    <2>4. InTime(w, B, F)
      BY <1>2, <1>11, <1>12, <2>1 DEF InTime
    <2> QED
      BY <1>2, <1>12, <2>2, <2>3, <2>4 DEF Timely
  <1>13. Merged(m, NoHandle) => Merged(w, NoHandle)
    BY ONLY <1>2, <1>5 DEF Merged, Settled
  <1> QED
    BY <1>2, <1>9, <1>10, <1>12, <1>13

PassedOn(B, C, c, x, n, t) ==
  C = IF x.ptr = Null THEN B ELSE [B EXCEPT ![c] = [ptr |-> x.ptr, size |-> n, before |-> t]]

(* A chunk is taken, and its client has it; or none is. *)
LEMMA ReachedBlocks ==
  ASSUME NEW m, Good(m, NoHandle), NEW k \in Nat, NEW n \in Nat, n <= k, NEW t \in Nat, NEW r, Reached(m, r, k, t),
         NEW B \in [Clients -> BlockType], Owned(m, B), NEW c \in Clients, B[c] = NoBlock,
         NEW C, PassedOn(B, C, c, r, n, t)
  PROVE  /\ C \in [Clients -> BlockType] /\ Owned(r.m, C) /\ SameMode(m, r.m)
         /\ \A F \in Times : Timely(m, F) /\ InTime(m, B, F) => InTime(r.m, C, F)
  <1>1. PICK w : w = r.m
    OBVIOUS
  <1>2. CASE r.ptr = Null /\ Kept(m, r.m) /\ Good(r.m, NoHandle)
    <2>1. Good(w, NoHandle) /\ Kept(m, w) /\ KeptUse(m, w) /\ C = B
      BY <1>1, <1>2, KeptGiven DEF PassedOn
    <2>2. Owned(w, B) /\ \A F \in Times : InTime(m, B, F) => InTime(w, B, F)
      BY ONLY <2>1, Good(m, NoHandle), Owned(m, B), KeptBlocks
    <2> QED
      BY <1>1, <2>1, <2>2 DEF Kept
  <1>3. ASSUME NEW v, NEW h, Good(v, NoHandle), Kept(m, v), Taken(v, r.m, h, k, t), r.ptr = v.chunks[h].ptr, Good(r.m, NoHandle)
        PROVE  /\ C \in [Clients -> BlockType] /\ Owned(w, C) /\ SameMode(m, w)
               /\ \A F \in Times : Timely(m, F) /\ InTime(m, B, F) => InTime(w, C, F)
    <2>1. r.ptr # Null
      BY <1>3, TakenPtr
    <2>2. GivenTo(B, C, c, v.chunks[h].ptr, n, t)
      BY <1>3, <2>1 DEF GivenTo, PassedOn
    <2>3. KeptUse(m, v)
      BY <1>3, KeptGiven
    <2>4. Owned(v, B) /\ \A F \in Times : InTime(m, B, F) => InTime(v, B, F)
      BY ONLY <1>3, <2>3, Good(m, NoHandle), Owned(m, B), KeptBlocks
    <2>5. Good(w, NoHandle) /\ Taken(v, w, h, k, t)
      BY <1>1, <1>3
    <2>6. /\ C \in [Clients -> BlockType] /\ Owned(w, C)
          /\ \A F \in Times : Timely(v, F) /\ InTime(v, B, F) => InTime(w, C, F)
      BY ONLY <1>3, <2>2, <2>4, <2>5, n <= k, k \in Nat, n \in Nat, c \in Clients, B[c] = NoBlock, t \in Nat,
              B \in [Clients -> BlockType], TakenBlocks
    <2>7. SameMode(m, v) /\ SameMode(v, w)
      BY <1>3, <2>5 DEF Kept, Taken
    <2>8. SameMode(m, w) /\ \A F \in Times : Timely(m, F) => Timely(v, F)
      BY ONLY <2>7 DEF SameMode
    <2> QED
      BY ONLY <2>4, <2>6, <2>8
  <1> QED
    BY <1>1, <1>2, <1>3 DEF Reached

(* What is given back was no block, and what is new was never freed. *)
LEMMA CollectedBlocks ==
  ASSUME NEW m, Good(m, NoHandle), NEW u, NEW S, Collected(m, u, S), NEW B \in [Clients -> BlockType], Owned(m, B)
  PROVE  /\ Owned(u, B)
         /\ \A F \in Times : /\ Reset(F, S) \in Times
                             /\ InTime(m, B, F) => InTime(u, B, Reset(F, S))
  <1>1. Good(u, NoHandle) /\ KeptUse(m, u)
    BY DEF Collected, Given
  <1>2. Owned(u, B) /\ \A F \in Times : InTime(m, B, F) => InTime(u, B, F)
    BY ONLY <1>1, Good(m, NoHandle), Owned(m, B), KeptBlocks
  <1>3. ASSUME NEW F \in Times, NEW G, G = Reset(F, S) PROVE G \in Times /\ (InTime(u, B, F) => InTime(u, B, G))
    <2>1. G \in Times /\ \A a \in Addresses : G[a] = 0 \/ G[a] = F[a]
      BY <1>3 DEF Reset, Times
    <2>2. \A c \in Clients : B[c].before \in Nat
      BY DEF BlockType
    <2>3. ASSUME InTime(u, B, F), NEW c \in Clients, NEW a \in Addresses, B[c] # NoBlock, B[c].before > 0,
                 Covers(u, u.handle[B[c].ptr], a)
          PROVE  G[a] <= B[c].before \/ G[a] < u.frontier
      <3>1. F[a] <= B[c].before \/ F[a] < u.frontier
        BY <2>3 DEF InTime
      <3> QED
        BY <2>1, <2>2, <3>1
    <2> QED
      BY <2>1, <2>3 DEF InTime
  <1> QED
    BY <1>2, <1>3

--------------------------------------------------------------------------------
(* The invariant of the specification *)

StateType == blocks \in [Clients -> BlockType] /\ count \in Nat /\ freed_at \in Times /\ oom \in Nat

(* Without a timing counter nothing waits for its time, and free neighbours are *)
(* merged at once.                                                              *)
Untimed == ~mem.timed => mem.timestamped = <<>> /\ count = 0 /\ Merged(mem, NoHandle)

IInv == Good(mem, NoHandle) /\ StateType /\ Owned(mem, blocks) /\ Untimed

(* What chunks and clients say of the times at which their bytes were freed. *)
TInv == Timely(mem, freed_at) /\ InTime(mem, blocks, freed_at)

(* The first state. *)
LEMMA InitInv ==
  ASSUME Init
  PROVE  IInv /\ TInv
  <1>1. PICK setup \in Setups : mem =
           [chunks  |-> <<>>, gc |-> setup.gc, timed |-> setup.timed, spare |-> <<>>,
            handle  |-> [a \in Addresses |-> NoHandle], regions |-> {},
            curr    |-> RoundedBytes(Min({MemoryLimit, FirstRegion})), total |-> 0, backpedal |-> FALSE,
            hung    |-> FALSE, timestamped |-> <<>>, frontier |-> 0, in_use |-> 0]
    BY DEF Init
  <1>2. setup.gc \in BOOLEAN /\ setup.timed \in BOOLEAN
    BY BFCAssumption
  <1>3. RoundedBytes(Min({MemoryLimit, FirstRegion})) \in Nat
    <2>1. MemoryLimit \in Nat /\ FirstRegion \in Nat
      BY BFCAssumption
    <2>2. Min({MemoryLimit, FirstRegion}) \in Nat
      BY <2>1, Pairs
    <2> QED
      BY <2>2, Rounding
  <1>4. PICK m : m = mem
    OBVIOUS
  <1>5. m \in MemType
    <2>1. [a \in Addresses |-> NoHandle] \in [Addresses -> Nat] /\ <<>> \in Seq(ChunkType) /\ <<>> \in Seq(Nat)
      BY DEF NoHandle
    <2> QED
      BY <1>1, <1>2, <1>3, <1>4, <2>1 DEF MemType
  <1>6. /\ m.chunks = <<>> /\ m.spare = <<>> /\ m.timestamped = <<>> /\ m.regions = {} /\ m.total = 0 /\ m.in_use = 0
        /\ m.gc = setup.gc /\ m.timed = setup.timed /\ \A a \in Addresses : m.handle[a] = NoHandle
    BY <1>1, <1>4
  <1>7. Handles(m) = {} /\ \A g : ~Is(m, g)
    BY <1>6 DEF Handles, Is
  <1>8. Filed(m) /\ Binned(m, NoHandle) /\ Regions(m) /\ Linked(m) /\ Tiled(m)
    BY <1>6, <1>7 DEF Filed, Binned, Regions, Apart, Linked, Tiled
  <1>9. Counted(m)
    <2>1. UsedBytes(m) = {} /\ Bytes(m.regions) = {}
      BY <1>6, <1>7 DEF UsedBytes, Bytes
    <2> QED
      <3>1. Cardinality({}) = 0
        BY FS_EmptySet
      <3>2. MemoryLimit \in Nat
        BY BFCAssumption
      <3>3. Cardinality(UsedBytes(m)) = 0 /\ Cardinality(Bytes(m.regions)) = 0
        BY ONLY <2>1, <3>1, Zenon
      <3>4. m.in_use = 0 /\ m.total = 0
        BY <1>6
      <3>5. m.in_use = Cardinality(UsedBytes(m)) /\ m.total = Cardinality(Bytes(m.regions))
        BY ONLY <3>3, <3>4, Zenon
      <3>6. m.total <= MemoryLimit
        BY ONLY <3>2, <3>4
      <3> QED
        BY ONLY <3>5, <3>6 DEF Counted
  <1>10. Good(mem, NoHandle)
    BY <1>4, <1>5, <1>8, <1>9 DEF Good
  <1>11. StateType
    BY DEF Init, StateType, BlockType, NoBlock, Times
  <1>12. Owned(mem, blocks)
    BY <1>4, <1>7 DEF Init, Owned
  <1>13. Untimed
    BY <1>4, <1>6, <1>7 DEF Init, Untimed, Merged
  <1>14. TInv
    <2>1. Stamped(mem, freed_at)
      BY <1>4, <1>7 DEF Stamped
    <2>2. Fresh(mem, freed_at)
      BY DEF Init, Fresh
    <2>3. InTime(mem, blocks, freed_at)
      BY DEF Init, InTime
    <2> QED
      BY <2>1, <2>2, <2>3 DEF TInv, Timely
  <1> QED
    BY <1>10, <1>11, <1>12, <1>13, <1>14 DEF IInv

(* Where free neighbours are merged, n free bytes in a row are in one chunk. *)
LEMMA NoStretch ==
  ASSUME NEW m, Good(m, NoHandle), Merged(m, NoHandle), NEW n \in Nat, n > 0, Full(m, n)
  PROVE  ~FreeStretch(m, n)
  <1>1. m \in MemType /\ Filed(m) /\ Regions(m) /\ Linked(m) /\ Tiled(m)
    BY DEF Good
  <1> SUFFICES ASSUME NEW r \in m.regions, NEW a \in Addresses, r.ptr <= a, a + n <= r.ptr + r.size,
                      \A h \in Live(m) : m.chunks[h].used =>
                        m.chunks[h].ptr + m.chunks[h].size <= a \/ a + n <= m.chunks[h].ptr
               PROVE  FALSE
    BY DEF FreeStretch
  <1>2. \A h : Is(m, h) /\ m.chunks[h].used => Fin(m, h) <= a \/ a + n <= m.chunks[h].ptr
    BY <1>1, LiveIs DEF Fin
  <1>3. ASSUME NEW h, Is(m, h)
        PROVE  /\ h \in Handles(m) /\ h # NoHandle /\ m.chunks[h].ptr \in Int /\ Fin(m, h) \in Int /\ m.chunks[h].ptr < Fin(m, h)
               /\ m.chunks[h].size \in Nat /\ Fin(m, h) = m.chunks[h].ptr + m.chunks[h].size
               /\ \E s \in m.regions : Holds(s, m.chunks[h].ptr) /\ Fin(m, h) <= RegionEnd(s)
    <2>1. h \in Handles(m) /\ h # NoHandle /\ m.chunks[h].size \in Nat
      BY <1>1, <1>3, Members DEF Is
    <2> QED
      BY <1>1, <1>3, <2>1, ChunkInRegion DEF Fin
  <1>4. a \in Int /\ Holds(r, a) /\ RegionEnd(r) \in Int /\ a + n <= RegionEnd(r)
    <2>1. a \in Int /\ r.ptr \in Int /\ r.size \in Nat
      BY <1>1, Members, BFCAssumption DEF Addresses
    <2> QED
      BY <2>1 DEF Holds, RegionEnd
  <1>5. PICK g \in Handles(m) : Is(m, g) /\ Covers(m, g, a)
    BY <1>1, <1>4 DEF Tiled
  <1>6. m.chunks[g].ptr <= a /\ a < Fin(m, g)
    BY <1>5 DEF Covers
  <1>7. ~m.chunks[g].used
    BY <1>2, <1>3, <1>4, <1>5, <1>6
  <1>8. m.chunks[g].size < n
    BY <1>5, <1>7 DEF Full
  <1>9. Fin(m, g) < a + n
    BY <1>3, <1>4, <1>5, <1>6, <1>8
  <1>10. Holds(r, m.chunks[g].ptr)
    <2>1. PICK s \in m.regions : Holds(s, m.chunks[g].ptr) /\ Fin(m, g) <= RegionEnd(s)
      BY <1>3, <1>5
    <2>2. s.ptr \in Int /\ RegionEnd(s) \in Int
      BY <1>1, Members DEF RegionEnd
    <2>3. Holds(s, a)
      BY <1>3, <1>4, <1>5, <1>6, <2>1, <2>2 DEF Holds
    <2>4. s = r
      BY <1>1, <1>4, <2>3, OneRegion
    <2> QED
      BY <2>1, <2>4
  <1>11. NextLink(m, g, r)
    BY <1>1, <1>5, <1>10 DEF Linked
  <1>12. PICK f : f = m.chunks[g].next
    OBVIOUS
  <1>13. Fin(m, g) < RegionEnd(r)
    BY <1>3, <1>4, <1>5, <1>9
  <1>14. Is(m, f) /\ m.chunks[f].ptr = Fin(m, g)
    BY <1>3, <1>4, <1>5, <1>11, <1>12, <1>13 DEF NextLink
  <1>15. m.chunks[f].used
    BY <1>3, <1>5, <1>7, <1>12, <1>14 DEF Merged, Settled
  <1>16. Fin(m, f) <= a \/ a + n <= m.chunks[f].ptr
    BY <1>2, <1>14, <1>15
  <1> QED
    BY <1>3, <1>4, <1>5, <1>6, <1>9, <1>14, <1>16

(* AllocateRaw. *)
LEMMA AllocateInv ==
  ASSUME IInv, NEW c \in Clients, NEW n \in Requests, NEW t \in Nat, t = 0 \/ t \in 1 .. count, AllocateRaw(c, n, t)
  PROVE  IInv' /\ (TInv => TInv') /\ OomIsTrue
  <1>1. PICK m, B, k, x, y : /\ m = mem /\ B = blocks /\ k = RoundedBytes(n)
                             /\ x = FirstAttempts(m, k, t) /\ y = TryCollect(x, k, t)
    OBVIOUS
  <1>2. PICK w, C, S : w = mem' /\ C = blocks' /\ S = Bytes(GivenBack(x, k))
    OBVIOUS
  <1>3. B[c] = NoBlock /\ count' = count
    BY <1>1 DEF AllocateRaw
  <1>4. \/ /\ w = y.m /\ C = IF y.ptr = Null THEN B ELSE [B EXCEPT ![c] = [ptr |-> y.ptr, size |-> n, before |-> t]]
           /\ freed_at' = Reset(freed_at, S) /\ oom' = IF y.ptr = Null /\ ~y.m.hung THEN k ELSE 0
        \/ w = [m EXCEPT !.hung = TRUE] /\ C = B /\ freed_at' = freed_at /\ oom' = 0
    BY <1>1, <1>2 DEF AllocateRaw, Reset
  <1>5. Good(m, NoHandle) /\ Owned(m, B) /\ B \in [Clients -> BlockType] /\ count \in Nat /\ freed_at \in Times /\ Untimed
    BY <1>1 DEF IInv, StateType
  <1>6. n \in Nat /\ n > 0
    BY BFCAssumption
  <1>7. k \in Nat /\ k >= n /\ n <= k /\ k > 0 /\ \E q \in Nat : k = kMinAllocationSize * q
    BY <1>1, <1>6, Rounding
  <1>8. /\ oom' \in Nat /\ Good(w, NoHandle) /\ C \in [Clients -> BlockType] /\ Owned(w, C) /\ w.timed = m.timed /\ Tidy(m, w)
        /\ freed_at' \in Times
        /\ Timely(m, freed_at) /\ InTime(m, B, freed_at) => Timely(w, freed_at') /\ InTime(w, C, freed_at')
        /\ oom' > 0 /\ Idle(m) /\ t = 0 => oom' = k /\ Failed(m, w, k) /\ ~w.hung
    <2>1. CASE /\ w = y.m /\ C = IF y.ptr = Null THEN B ELSE [B EXCEPT ![c] = [ptr |-> y.ptr, size |-> n, before |-> t]]
               /\ freed_at' = Reset(freed_at, S) /\ oom' = IF y.ptr = Null /\ ~y.m.hung THEN k ELSE 0
      <3>1. /\ \E u : Collected(m, u, Bytes(GivenBack(x, k))) /\ Reached(u, y, k, t)
            /\ Idle(m) /\ t = 0 /\ y.ptr = Null => Failed(m, y.m, k)
        BY ONLY <1>1, <1>5, <1>7, t \in Nat, AllocateStep
      <3>2. PICK u : Collected(m, u, S) /\ Reached(u, y, k, t)
        BY <1>2, <3>1
      <3>3. /\ Owned(u, B)
            /\ \A F \in Times : Reset(F, S) \in Times /\ (InTime(m, B, F) => InTime(u, B, Reset(F, S)))
        BY ONLY <1>5, <3>2, CollectedBlocks
      <3>4. Good(u, NoHandle) /\ Given(m, u, S) /\ Tidy(m, u)
        BY <3>2 DEF Collected
      <3>5. /\ C \in [Clients -> BlockType] /\ Owned(y.m, C) /\ SameMode(u, y.m)
            /\ \A F \in Times : Timely(u, F) /\ InTime(u, B, F) => InTime(y.m, C, F)
        <4>1. PassedOn(B, C, c, y, n, t)
          BY <2>1 DEF PassedOn
        <4> QED
          BY ONLY <1>3, <1>5, <1>6, <1>7, <3>2, <3>3, <3>4, <4>1, c \in Clients, t \in Nat, ReachedBlocks
      <3>6. Good(w, NoHandle) /\ Tidy(m, w)
        <4>1. Good(w, NoHandle) /\ Tidy(u, w)
          BY <2>1, <3>2 DEF Reached
        <4> QED
          BY <3>4, <4>1 DEF Tidy
      <3>7. w.timed = m.timed
        BY <2>1, <3>4, <3>5 DEF Given, SameMode
      <3>8. freed_at' \in Times
        BY <1>5, <2>1, <3>3
      <3>9. ASSUME Timely(m, freed_at), InTime(m, B, freed_at) PROVE Timely(w, freed_at') /\ InTime(w, C, freed_at')
        <4>1. Timely(u, freed_at') /\ InTime(u, B, freed_at')
          BY <1>5, <2>1, <3>3, <3>4, <3>9 DEF Given
        <4> QED
          BY <2>1, <3>5, <3>8, <4>1 DEF SameMode
      <3>10. oom' \in Nat /\ (oom' > 0 /\ Idle(m) /\ t = 0 => oom' = k /\ Failed(m, w, k) /\ ~w.hung)
        BY <1>7, <2>1, <3>1
      <3> QED
        BY <2>1, <3>5, <3>6, <3>7, <3>8, <3>9, <3>10
    <2>2. CASE w = [m EXCEPT !.hung = TRUE] /\ C = B /\ freed_at' = freed_at /\ oom' = 0
      <3>1. m \in MemType /\ m.curr \in Nat /\ m.backpedal \in BOOLEAN
        BY <1>5 DEF Good, MemType
      <3>2. PICK hu \in BOOLEAN : hu = TRUE
        OBVIOUS
      <3>3. PutAside(m, w, m.curr, m.backpedal, hu)
        BY <2>2, <3>1, <3>2 DEF PutAside, MemType
      <3>4. Good(w, NoHandle) /\ Kept(m, w) /\ Tidy(m, w)
        <4>1. PICK curr \in Nat, bp \in BOOLEAN : PutAside(m, w, curr, bp, hu)
          BY <3>1, <3>3
        <4> QED
          BY ONLY <1>5, <4>1, hu \in BOOLEAN, AsideStep
      <3>5. KeptUse(m, w) /\ SameMode(m, w)
        BY <3>4, KeptGiven DEF Kept
      <3>6. Owned(w, B) /\ \A F \in Times : InTime(m, B, F) => InTime(w, B, F)
        BY ONLY <1>5, <3>4, <3>5, KeptBlocks
      <3>7. ASSUME Timely(m, freed_at), InTime(m, B, freed_at) PROVE Timely(w, freed_at') /\ InTime(w, C, freed_at')
        BY <1>5, <2>2, <3>5, <3>6, <3>7 DEF SameMode
      <3>8. w.timed = m.timed
        BY <3>5 DEF SameMode
      <3>9. Owned(w, C) /\ C \in [Clients -> BlockType] /\ freed_at' \in Times /\ oom' \in Nat /\ ~(oom' > 0)
        BY <1>5, <2>2, <3>6
      <3> QED
        BY ONLY <3>4, <3>7, <3>8, <3>9
    <2> QED
      BY <1>4, <2>1, <2>2
  <1>9. (Idle(w) /\ Merged(w, NoHandle)) \/ w.timed
    <2>1. ~m.timed => Idle(m) /\ Merged(m, NoHandle)
      BY <1>1, <1>5 DEF Untimed, Idle
    <2> QED
      BY <1>8, <2>1 DEF Tidy
  <1>10. IInv'
    <2>1. StateType'
      BY <1>2, <1>3, <1>5, <1>8 DEF StateType
    <2>2. ~w.timed => w.timestamped = <<>> /\ count' = 0 /\ Merged(w, NoHandle)
      BY <1>1, <1>3, <1>5, <1>8, <1>9 DEF Untimed, Idle
    <2>3. Untimed'
      BY <1>2, <2>2 DEF Untimed
    <2>4. Good(mem', NoHandle) /\ Owned(mem', blocks')
      BY <1>2, <1>8
    <2> QED
      BY ONLY <2>1, <2>3, <2>4 DEF IInv
  <1>11. ASSUME TInv PROVE TInv'
    <2>1. Timely(m, freed_at) /\ InTime(m, B, freed_at)
      BY <1>1, <1>11 DEF TInv
    <2>2. Timely(mem', freed_at') /\ InTime(mem', blocks', freed_at')
      BY <1>2, <1>8, <2>1
    <2> QED
      BY ONLY <2>2 DEF TInv
  <1>12. ASSUME oom' > 0, ~m.timed
         PROVE  /\ ~FreeStretch(w, oom') /\ NoRoom(w, oom')
                /\ ~m.backpedal /\ w.regions = m.regions => NoSize(w, oom')
    <2>1. Idle(m) /\ t = 0
      BY <1>1, <1>5, <1>12 DEF Untimed, Idle
    <2>2. oom' = k /\ Failed(m, w, k) /\ ~w.hung
      BY <1>8, <1>12, <2>1
    <2>3. Full(w, k) /\ NoRoom(w, k) /\ (~m.backpedal /\ w.regions = m.regions => NoSize(w, k))
      BY <2>2 DEF Failed
    <2>4. Merged(w, NoHandle)
      BY <1>8, <1>9, <1>12
    <2>5. ~FreeStretch(w, k)
      BY ONLY <1>7, <1>8, <2>3, <2>4, NoStretch
    <2> QED
      BY <2>2, <2>3, <2>5
  <1>13. OomIsTrue
    BY <1>1, <1>2, <1>12 DEF OomIsTrue, NoRoom, NoSize
  <1> QED
    BY <1>10, <1>11, <1>13

(* DeallocateRaw. *)
LEMMA DeallocateInv ==
  ASSUME IInv, NEW c \in Clients, DeallocateRaw(c)
  PROVE  IInv' /\ (TInv => TInv') /\ OomIsTrue
  <1>1. PICK m, B, h : m = mem /\ B = blocks /\ h = m.handle[B[c].ptr]
    OBVIOUS
  <1>2. PICK now, f : now = (IF m.timed THEN count + 1 ELSE 0) /\ f = (IF m.timed THEN now ELSE m.chunks[h].freed)
    OBVIOUS
  <1>3. PICK v : v = [m EXCEPT !.chunks[h] = [m.chunks[h] EXCEPT !.used = FALSE, !.freed = f],
                               !.in_use = @ - m.chunks[h].size]
    OBVIOUS
  <1>4. PICK w, C : w = mem' /\ C = blocks'
    OBVIOUS
  <1>5. Good(m, NoHandle) /\ Owned(m, B) /\ B \in [Clients -> BlockType] /\ count \in Nat /\ freed_at \in Times /\ Untimed
    BY <1>1 DEF IInv, StateType
  <1>6. B[c] # NoBlock /\ C = [B EXCEPT ![c] = NoBlock] /\ oom' = 0 /\ count' = now
    BY <1>1, <1>2, <1>4 DEF DeallocateRaw
  <1>7. w = IF m.timed THEN [InsertFreeChunkIntoBin(v, h) EXCEPT !.timestamped = Append(@, h)]
            ELSE InsertFreeChunkIntoBin(TryToCoalesce(v, h, FALSE).m, TryToCoalesce(v, h, FALSE).h)
    BY <1>1, <1>2, <1>3, <1>4 DEF DeallocateRaw
  <1>8. freed_at' = [a \in Addresses |->
           IF a \in m.chunks[h].ptr .. m.chunks[h].ptr + m.chunks[h].size - 1 THEN now ELSE freed_at[a]]
    BY <1>1, <1>2 DEF DeallocateRaw
  <1>9. Block(m, B[c])
    BY <1>5, <1>6 DEF Owned
  <1>10. h \in Handles(m) /\ Is(m, h) /\ m.chunks[h].used
    BY ONLY <1>1, <1>5, <1>9, BlockChunk
  <1>11. m.chunks[h].freed \in Nat /\ m.chunks[h].ptr \in Int /\ m.chunks[h].size \in Nat /\ m.timed \in BOOLEAN
    BY <1>5, <1>10, Members DEF Good, MemType
  <1>12. now \in Nat /\ f \in Nat /\ (~m.timed => now = 0) /\ (m.timed => f = now)
    BY <1>2, <1>5, <1>11
  <1>13. UnusedTo(m, v, h, f)
    BY ONLY <1>3, <1>5, <1>10, <1>12, FreeStep
  <1>14. Good(v, h) /\ Is(v, h) /\ ~v.chunks[h].used /\ v.timed = m.timed /\ v.timestamped = m.timestamped
    BY <1>10, <1>13 DEF UnusedTo, SameButUse
  <1>15. w = IF v.timed THEN [InsertFreeChunkIntoBin(v, h) EXCEPT !.timestamped = Append(@, h)]
             ELSE InsertFreeChunkIntoBin(TryToCoalesce(v, h, FALSE).m, TryToCoalesce(v, h, FALSE).h)
    BY ONLY <1>7, <1>14
  <1>16. /\ Good(w, NoHandle) /\ Coarser(v, w)
         /\ ~v.timed => w.timestamped = v.timestamped /\ (Merged(v, h) => Merged(w, NoHandle))
    BY ONLY <1>14, <1>15, BackStep
  <1>17. /\ C \in [Clients -> BlockType] /\ Owned(w, C)
         /\ \A F \in Times : /\ FreedNow(m, h, now, F) \in Times
                             /\ Timely(m, F) => Timely(w, FreedNow(m, h, now, F))
                             /\ InTime(m, B, F) => InTime(w, C, FreedNow(m, h, now, F))
    BY ONLY ZenonT(30), <1>1, <1>5, <1>6, <1>12, <1>13, <1>16, c \in Clients, FreedBlocks
  <1>18. freed_at' = FreedNow(m, h, now, freed_at)
    <2>1. \A a \in Addresses : a \in m.chunks[h].ptr .. m.chunks[h].ptr + m.chunks[h].size - 1 <=> Covers(m, h, a)
      BY <1>11, BFCAssumption DEF Covers, Fin, Addresses
    <2> QED
      BY <1>8, <2>1 DEF FreedNow
  <1>19. IInv'
    <2>1. oom' \in Nat /\ count' \in Nat /\ freed_at' \in Times /\ blocks' \in [Clients -> BlockType]
      BY <1>4, <1>5, <1>6, <1>12, <1>17, <1>18
    <2>2. w.timed = v.timed
      BY <1>16 DEF Coarser, SameRest
    <2>3. Untimed'
      <3>1. ASSUME ~m.timed PROVE w.timestamped = <<>> /\ Merged(w, NoHandle)
        <4>1. m.timestamped = <<>> /\ Merged(m, NoHandle)
          BY <1>1, <1>5, <3>1 DEF Untimed
        <4>2. f = 0
          BY <1>2, <1>10, <3>1, <4>1 DEF Merged
        <4>3. Merged(v, h)
          <5>1. m \in MemType /\ Regions(m) /\ Linked(m)
            BY <1>5 DEF Good
          <5>2. SameButUse(m, v, h) /\ ~v.chunks[h].used /\ v.chunks[h].freed = 0 /\ \A g : Is(v, g) <=> Is(m, g)
            BY <1>13, <4>2 DEF UnusedTo
          <5> QED
            BY ONLY <4>1, <5>1, <5>2, UseMerged
        <4> QED
          BY <1>14, <1>16, <3>1, <4>1, <4>3
      <3>2. ~w.timed => w.timestamped = <<>> /\ count' = 0 /\ Merged(w, NoHandle)
        BY <1>6, <1>12, <1>14, <2>2, <3>1
      <3> QED
        BY <1>4, <3>2 DEF Untimed
    <2>4. Good(mem', NoHandle) /\ Owned(mem', blocks')
      BY <1>4, <1>16, <1>17
    <2> QED
      BY ONLY <2>1, <2>3, <2>4 DEF IInv, StateType
  <1>20. ASSUME TInv PROVE TInv'
    <2>1. Timely(m, freed_at) /\ InTime(m, B, freed_at)
      BY <1>1, <1>20 DEF TInv
    <2>2. Timely(w, freed_at') /\ InTime(w, C, freed_at')
      BY ONLY <1>5, <1>17, <1>18, <2>1
    <2>3. Timely(mem', freed_at') /\ InTime(mem', blocks', freed_at')
      BY <1>4, <2>2
    <2> QED
      BY ONLY <2>3 DEF TInv
  <1>21. OomIsTrue
    BY <1>6 DEF OomIsTrue
  <1> QED
    BY <1>19, <1>20, <1>21

(* SetSafeFrontier. *)
LEMMA FrontierInv ==
  ASSUME IInv, NEW n \in 1 .. count, SetSafeFrontier(n)
  PROVE  IInv' /\ (TInv => TInv') /\ OomIsTrue
  <1>1. PICK m, w : m = mem /\ w = mem'
    OBVIOUS
  <1>2. Good(m, NoHandle) /\ Owned(m, blocks) /\ StateType /\ Untimed /\ n \in Nat
    BY <1>1 DEF IInv, StateType
  <1>3. n > m.frontier /\ w = [m EXCEPT !.frontier = n] /\ oom' = 0 /\ blocks' = blocks /\ count' = count /\ freed_at' = freed_at
    BY <1>1 DEF SetSafeFrontier
  <1>4. /\ Good(w, NoHandle) /\ Owned(w, blocks) /\ w.timestamped = m.timestamped /\ w.timed = m.timed
        /\ Merged(m, NoHandle) => Merged(w, NoHandle)
        /\ \A F \in Times : Timely(m, F) /\ InTime(m, blocks, F) => Timely(w, F) /\ InTime(w, blocks, F)
    BY <1>2, <1>3, FrontierStep
  <1>5. IInv'
    <2>1. StateType'
      BY <1>2, <1>3 DEF StateType
    <2>2. Untimed'
      <3>1. ~w.timed => w.timestamped = <<>> /\ count' = 0 /\ Merged(w, NoHandle)
        BY <1>1, <1>2, <1>3, <1>4 DEF Untimed
      <3> QED
        BY <1>1, <3>1 DEF Untimed
    <2>3. Good(mem', NoHandle) /\ Owned(mem', blocks')
      BY <1>1, <1>3, <1>4
    <2> QED
      BY ONLY <2>1, <2>2, <2>3 DEF IInv
  <1>6. ASSUME TInv PROVE TInv'
    <2>1. Timely(mem', freed_at') /\ InTime(mem', blocks', freed_at')
      BY <1>1, <1>2, <1>3, <1>4, <1>6 DEF TInv, StateType
    <2> QED
      BY ONLY <2>1 DEF TInv
  <1>7. OomIsTrue
    BY <1>3 DEF OomIsTrue
  <1> QED
    BY <1>5, <1>6, <1>7

(* A step. *)
LEMMA NextInv ==
  ASSUME IInv, [Next]_vars
  PROVE  IInv' /\ (TInv => TInv') /\ [OomIsTrue]_vars
  <1>1. CASE UNCHANGED vars
    BY <1>1 DEF vars, IInv, StateType, Untimed, TInv
  <1>2. ASSUME NEW c \in Clients, NEW n \in Requests, AllocateRaw(c, n, 0) PROVE IInv' /\ (TInv => TInv') /\ OomIsTrue
    BY <1>2, AllocateInv
  <1>3. ASSUME NEW c \in Clients, NEW n \in Requests, NEW t \in 1 .. count, AllocateRaw(c, n, t)
        PROVE  IInv' /\ (TInv => TInv') /\ OomIsTrue
    BY <1>3, AllocateInv
  <1>4. ASSUME NEW c \in Clients, DeallocateRaw(c) PROVE IInv' /\ (TInv => TInv') /\ OomIsTrue
    BY <1>4, DeallocateInv
  <1>5. ASSUME NEW n \in 1 .. count, SetSafeFrontier(n) PROVE IInv' /\ (TInv => TInv') /\ OomIsTrue
    BY <1>5, FrontierInv
  <1> QED
    BY <1>1, <1>2, <1>3, <1>4, <1>5 DEF Next

--------------------------------------------------------------------------------
(* What the invariant says of chunks and blocks *)

(* The invariant implies the tiling. *)
LEMMA TilingHolds ==
  ASSUME IInv
  PROVE  ChunksTileRegions
  <1>1. PICK m : m = mem
    OBVIOUS
  <1>2. m \in MemType /\ Filed(m) /\ Regions(m) /\ Linked(m) /\ Tiled(m)
    BY <1>1 DEF IInv, Good
  <1>3. \A h : h \in Live(m) <=> Is(m, h)
    BY <1>2, LiveIs
  <1>4. ASSUME NEW h, Is(m, h)
        PROVE  /\ h \in Handles(m) /\ m.chunks[h].ptr \in Int /\ Fin(m, h) \in Int /\ m.chunks[h].ptr < Fin(m, h)
               /\ \E r \in m.regions : Holds(r, m.chunks[h].ptr) /\ Fin(m, h) <= RegionEnd(r)
    BY <1>2, <1>4, ChunkInRegion DEF Fin
  <1>5. \A r \in m.regions, a \in Int : a \in r.ptr .. r.ptr + r.size - 1 <=> Holds(r, a)
    BY <1>2, RegionBytes
  <1>6. \A h, r : r \in m.regions => (h \in ChunksOf(m, r) <=> Is(m, h) /\ Holds(r, m.chunks[h].ptr))
    BY <1>3, <1>4, <1>5 DEF ChunksOf
  <1>7. \A h : End(h) = Fin(m, h)
    BY <1>1 DEF End, Fin
  <1>8. ASSUME NEW h \in Live(m) PROVE \E r \in m.regions : h \in ChunksOf(m, r) /\ End(h) <= r.ptr + r.size
    BY <1>3, <1>4, <1>6, <1>7 DEF RegionEnd
  <1>9. ASSUME NEW r \in m.regions PROVE Chunk(m, r) # NoHandle /\ m.chunks[Chunk(m, r)].prev = NoHandle
    <2>1. PICK h : h = m.handle[r.ptr]
      OBVIOUS
    <2>2. r.ptr \in Addresses /\ r.ptr \in Int /\ r.size \in Nat /\ r.size > 0 /\ h # NoHandle
      BY <1>2, <2>1, Members DEF Regions
    <2>3. Is(m, h) /\ h \in Handles(m) /\ m.chunks[h].ptr = r.ptr
      BY <1>2, <2>1, <2>2 DEF Filed, Is
    <2>4. Holds(r, m.chunks[h].ptr)
      BY <2>2, <2>3 DEF Holds, RegionEnd
    <2>5. PrevLink(m, h, r)
      BY <1>2, <2>3, <2>4 DEF Linked
    <2> QED
      BY <2>1, <2>2, <2>3, <2>5 DEF PrevLink, Chunk
  <1>10. ASSUME NEW r \in m.regions, NEW a \in r.ptr .. r.ptr + r.size - 1
         PROVE  \E h \in ChunksOf(m, r) : {h} = {g \in Live(m) : m.chunks[g].ptr <= a /\ a < End(g)}
    <2>1. r.ptr \in Nat /\ r.size \in Nat /\ RegionEnd(r) \in Int /\ RegionEnd(r) <= DeviceSize /\ DeviceSize \in Nat
      BY <1>2, Members, BFCAssumption DEF Regions, RegionEnd
    <2>2. a \in Int /\ a \in Addresses /\ Holds(r, a)
      BY <1>5, <2>1 DEF Addresses, RegionEnd
    <2>3. PICK h \in Handles(m) : Is(m, h) /\ Covers(m, h, a)
      BY <1>2, <2>2 DEF Tiled
    <2>4. PICK s \in m.regions : Holds(s, m.chunks[h].ptr) /\ Fin(m, h) <= RegionEnd(s)
      BY <1>4, <2>3
    <2>5. s.ptr \in Int /\ RegionEnd(s) \in Int /\ m.chunks[h].ptr \in Int /\ Fin(m, h) \in Int
      BY <1>2, <1>4, <2>3, Members DEF RegionEnd
    <2>6. Holds(s, a)
      BY <2>2, <2>3, <2>4, <2>5 DEF Holds, Covers
    <2>7. s = r
      BY <1>2, <2>2, <2>6, OneRegion
    <2>8. h \in ChunksOf(m, r)
      BY <1>6, <2>3, <2>4, <2>7
    <2>9. ASSUME NEW g, Is(m, g), m.chunks[g].ptr <= a, a < Fin(m, g) PROVE g = h
      <3>1. g # h => Fin(m, g) <= m.chunks[h].ptr \/ Fin(m, h) <= m.chunks[g].ptr
        BY <1>2, <1>4, <2>3, <2>9 DEF Tiled
      <3>2. m.chunks[g].ptr \in Int /\ Fin(m, g) \in Int
        BY <1>4, <2>9
      <3> QED
        BY <2>2, <2>3, <2>5, <2>9, <3>1, <3>2 DEF Covers
    <2>10. {h} = {g \in Live(m) : m.chunks[g].ptr <= a /\ a < End(g)}
      BY <1>3, <1>7, <2>3, <2>9 DEF Covers
    <2> QED
      BY <2>8, <2>10
  <1>11. ASSUME NEW r \in m.regions, NEW h \in ChunksOf(m, r), NEW n, n = m.chunks[h].next
         PROVE  IF End(h) = r.ptr + r.size THEN n = NoHandle
                ELSE n = m.handle[End(h)] /\ n # NoHandle /\ m.chunks[n].prev = h
    <2>1. Is(m, h) /\ h \in Handles(m) /\ Holds(r, m.chunks[h].ptr)
      BY <1>4, <1>6
    <2>2. NextLink(m, h, r)
      BY <1>2, <2>1 DEF Linked
    <2>3. RegionEnd(r) \in Int /\ Fin(m, h) \in Int
      BY <1>2, <1>4, <2>1, Members DEF RegionEnd
    <2>4. CASE Fin(m, h) = RegionEnd(r) /\ n = NoHandle
      BY <1>7, <2>4 DEF RegionEnd
    <2>5. CASE Fin(m, h) < RegionEnd(r) /\ Is(m, n) /\ m.chunks[n].ptr = Fin(m, h) /\ m.chunks[n].prev = h
      <3>1. n = m.handle[Fin(m, h)] /\ n # NoHandle /\ Fin(m, h) # RegionEnd(r)
        BY <1>2, <2>3, <2>5, Members DEF Is
      <3> QED
        BY <1>7, <2>5, <3>1 DEF RegionEnd
    <2> QED
      BY <1>11, <2>2, <2>4, <2>5 DEF NextLink
  <1> QED
    BY ONLY <1>1, <1>8, <1>9, <1>10, <1>11 DEF ChunksTileRegions, InRegion

(* The invariant implies that blocks are disjoint. *)
LEMMA DisjointHolds ==
  ASSUME IInv
  PROVE  BlocksDisjoint
  <1>1. PICK m, B : m = mem /\ B = blocks
    OBVIOUS
  <1>2. Good(m, NoHandle) /\ Owned(m, B)
    BY <1>1 DEF IInv
  <1>3. m \in MemType /\ Filed(m) /\ Regions(m) /\ Linked(m) /\ Tiled(m) /\ Counted(m) /\ Binned(m, NoHandle)
    BY <1>2 DEF Good
  <1> DEFINE Held == {c \in Clients : B[c] # NoBlock}
             H(c) == m.handle[B[c].ptr]
  <1>4. ASSUME NEW c \in Held
        PROVE  H(c) # NoHandle /\ H(c) \in Handles(m) /\ Is(m, H(c)) /\ m.chunks[H(c)].used /\ m.chunks[H(c)].ptr = B[c].ptr
               /\ m.chunks[H(c)].size >= B[c].size
    <2>1. Block(m, B[c])
      BY <1>2 DEF Owned
    <2>2. PICK h : h = m.handle[B[c].ptr]
      OBVIOUS
    <2>3. h \in Handles(m) /\ Is(m, h) /\ m.chunks[h].used /\ m.chunks[h].ptr = B[c].ptr /\ m.chunks[h].size >= B[c].size
      BY ONLY <1>2, <2>1, <2>2, BlockChunk
    <2>4. h # NoHandle
      BY <1>3, <2>3, Members
    <2> QED
      BY <2>2, <2>3, <2>4
  <1>5. \A h : Is(m, h) => m.chunks[h].ptr \in Int /\ Fin(m, h) \in Int /\ Fin(m, h) <= DeviceSize /\ m.chunks[h].ptr \in Addresses
    BY <1>3, ChunkInRegion
  <1>6. \A h : End(h) = Fin(m, h)
    BY <1>1 DEF End, Fin
  <1>7. ASSUME NEW c \in Held, NEW d \in Held, c # d PROVE End(H(c)) <= B[d].ptr \/ End(H(d)) <= B[c].ptr
    <2>1. B[c].ptr # B[d].ptr
      BY <1>2, <1>7 DEF Owned
    <2>2. H(c) # H(d)
      BY <1>4, <2>1
    <2>3. Fin(m, H(c)) <= m.chunks[H(d)].ptr \/ Fin(m, H(d)) <= m.chunks[H(c)].ptr
      BY <1>3, <1>4, <2>2 DEF Tiled
    <2> QED
      BY <1>4, <1>6, <2>3
  <1>8. ASSUME NEW h, Is(m, h), m.chunks[h].used PROVE \E c \in Held : H(c) = h
    <2>1. h \in Handles(m)
      BY <1>8 DEF Is
    <2>2. PICK c \in Clients : B[c] # NoBlock /\ B[c].ptr = m.chunks[h].ptr
      BY <1>2, <1>8, <2>1 DEF Owned
    <2> QED
      BY <1>8, <2>2 DEF Is
  <1>9. UsedBytes(m) = UNION {B[c].ptr .. End(H(c)) - 1 : c \in Held}
    <2>1. ASSUME NEW c \in Held, NEW a \in B[c].ptr .. End(H(c)) - 1 PROVE a \in UsedBytes(m)
      <3>1. PICK h : h = H(c)
        OBVIOUS
      <3>2. Is(m, h) /\ h \in Handles(m) /\ m.chunks[h].used /\ m.chunks[h].ptr = B[c].ptr
        BY <1>4, <3>1
      <3>3. a \in m.chunks[h].ptr .. Fin(m, h) - 1
        BY <1>6, <3>1, <3>2
      <3>4. Covers(m, h, a) /\ a \in Addresses
        BY <1>5, <3>2, <3>3, BFCAssumption DEF Covers, Addresses
      <3> QED
        BY <3>2, <3>4 DEF UsedBytes
    <2>2. ASSUME NEW a \in UsedBytes(m) PROVE \E c \in Held : a \in B[c].ptr .. End(H(c)) - 1
      <3>1. PICK h \in Handles(m) : Is(m, h) /\ m.chunks[h].used /\ Covers(m, h, a)
        BY DEF UsedBytes
      <3>2. PICK c \in Held : H(c) = h
        BY <1>8, <3>1
      <3>3. m.chunks[h].ptr = B[c].ptr
        BY <1>4, <3>2
      <3>4. a \in Int /\ m.chunks[h].ptr \in Int /\ Fin(m, h) \in Int
        BY <1>5, <3>1, BFCAssumption DEF UsedBytes, Addresses
      <3>5. a \in m.chunks[h].ptr .. Fin(m, h) - 1
        BY <3>1, <3>4 DEF Covers
      <3> QED
        BY <1>6, <3>2, <3>3, <3>5
    <2> QED
      BY <2>1, <2>2
  <1>10. m.in_use = Cardinality(UNION {B[c].ptr .. End(H(c)) - 1 : c \in Held})
    BY <1>3, <1>9 DEF Counted
  <1>11. \A h \in Live(m) : m.chunks[h].used => \E c \in Held : H(c) = h
    BY <1>3, <1>8, LiveIs
  <1> QED
    BY ONLY SMTT(30), <1>1, <1>4, <1>7, <1>10, <1>11 DEF BlocksDisjoint

(* The invariant implies that memory is not used too early. *)
LEMMA InTimeHolds ==
  ASSUME IInv, TInv
  PROVE  FreedBeforeUse
  <1>1. PICK m, B : m = mem /\ B = blocks
    OBVIOUS
  <1>2. Good(m, NoHandle) /\ Owned(m, B) /\ InTime(m, B, freed_at)
    BY <1>1 DEF IInv, TInv
  <1> SUFFICES ASSUME NEW c \in Clients, B[c].before > 0, NEW a \in B[c].ptr .. End(m.handle[B[c].ptr]) - 1
               PROVE  freed_at[a] <= B[c].before \/ freed_at[a] < m.frontier
    BY <1>1 DEF FreedBeforeUse
  <1>3. B[c] # NoBlock
    BY DEF NoBlock
  <1>4. PICK h : h = m.handle[B[c].ptr]
    OBVIOUS
  <1>5. Block(m, B[c])
    BY <1>2, <1>3 DEF Owned
  <1>6. Is(m, h) /\ m.chunks[h].ptr = B[c].ptr
    BY ONLY <1>2, <1>4, <1>5, BlockChunk
  <1>7. m.chunks[h].ptr \in Addresses /\ Fin(m, h) \in Int /\ Fin(m, h) <= DeviceSize /\ m.chunks[h].ptr \in Int
    BY <1>2, <1>6, ChunkInRegion DEF Good
  <1>8. a \in m.chunks[h].ptr .. Fin(m, h) - 1
    BY <1>1, <1>4, <1>6 DEF End, Fin
  <1>9. a \in Addresses /\ Covers(m, h, a)
    BY <1>7, <1>8, BFCAssumption DEF Covers, Addresses
  <1> QED
    BY <1>2, <1>3, <1>4, <1>9 DEF InTime

--------------------------------------------------------------------------------
(* The theorems *)

(* The members of the allocator are of their types, every handle is filed under *)
(* its chunk's address or spare, a free chunk is in the bin of its size, the    *)
(* chunks tile the regions, and the blocks of the clients are chunks in use.    *)
THEOREM Invariant == Spec => []IInv
  <1>1. Init => IInv
    BY InitInv
  <1>2. IInv /\ [Next]_vars => IInv'
    BY NextInv
  <1> QED
    BY <1>1, <1>2, PTL DEF Spec

(* Split, merged or collected, chunks tile the regions of BFCAllocator, and *)
(* next and prev lead from neighbour to neighbour.                          *)
THEOREM Tiling == Spec => []ChunksTileRegions
  <1>1. IInv => ChunksTileRegions
    BY TilingHolds
  <1> QED
    BY <1>1, Invariant, PTL

(* AllocateRaw gives no byte to two clients and each at least what it asked for, *)
(* and stats_.bytes_in_use counts the bytes they hold.                           *)
THEOREM Disjoint == Spec => []BlocksDisjoint
  <1>1. IInv => BlocksDisjoint
    BY DisjointHolds
  <1> QED
    BY <1>1, Invariant, PTL

(* Without a timing counter AllocateRaw fails only if no free bytes in a row, of *)
(* one chunk or of several, would do, and the memory limit or the device has no  *)
(* room for the region that Extend asks for; if this is the first time that it   *)
(* back-pedals, nor for any region that back-pedalling could come to.            *)
THEOREM FailsForAReason == Spec => NoFalseOom
  <1>1. IInv /\ [Next]_vars => [OomIsTrue]_vars
    BY NextInv
  <1> QED
    BY <1>1, Invariant, PTL DEF Spec, NoFalseOom

(* A client that asks for memory freed by the time t is given no byte that was  *)
(* freed later and that the device may still use, be regions collected or not.  *)
THEOREM ReusedInTime == Spec => []FreedBeforeUse
  <1>1. Init => IInv /\ TInv
    BY InitInv
  <1>2. IInv /\ TInv /\ [Next]_vars => IInv' /\ TInv'
    BY NextInv
  <1>3. IInv /\ TInv => FreedBeforeUse
    BY InTimeHolds
  <1> QED
    BY <1>1, <1>2, <1>3, PTL DEF Spec
================================================================================
