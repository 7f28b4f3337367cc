------------------------------ MODULE BFCAllocator -----------------------------
(***************************************************************************)
(* tensorflow::BFCAllocator (core/common_runtime/bfc_allocator.cc): best   *)
(* fit with coalescing over regions obtained from a SubAllocator, with     *)
(* region growth, back-pedalling, garbage collection of free regions, and  *)
(* the chunks whose reuse waits for the device (timestamped_chunks_).      *)
(*                                                                         *)
(* Every operation runs under lock_ and is one step.  Its parts are        *)
(* operators on a record `m' of the allocator's members, named as in the   *)
(* code.  The SubAllocator is external: it takes the lowest hole of the    *)
(* device that is large enough.                                            *)
(***************************************************************************)
EXTENDS Integers, FiniteSets, SequencesExt

CONSTANTS Clients,             \* each allocates and frees one block at a time
          Requests,            \* the sizes they ask for
          kMinAllocationSize, kNumBins, kMaxInternalFragmentation,
          FirstRegion,         \* the first region's size with allow_growth, in the code 1 MiB
          BackpedalNum, BackpedalDen,   \* kBackpedalFactor
          SizeBits,            \* the width of size_t
          MemoryLimit,         \* memory_limit_
          DeviceSize,          \* what the device really has
          Setups,              \* how it may be set up: records [gc, timed]
          MaxCount             \* bound on timing_counter_

ASSUME BFCAssumption ==
  /\ kMinAllocationSize \in Nat \ {0} /\ kNumBins \in Nat \ {0}
  /\ kMaxInternalFragmentation \in Nat \ {0}
  /\ Requests \subseteq Nat \ {0} /\ FirstRegion \in Nat
  /\ BackpedalDen \in Nat \ {0} /\ BackpedalNum \in 0 .. BackpedalDen
  /\ SizeBits \in Nat /\ 2^SizeBits \in Nat \ {0}
  /\ 2^0 = 1 /\ \A b \in 0 .. kNumBins - 1 : 2^b \in Nat
  /\ MemoryLimit \in 0 .. 2^SizeBits - 1 /\ DeviceSize \in Nat /\ MaxCount \in Nat
  /\ Setups \subseteq [gc : BOOLEAN, timed : BOOLEAN]

VARIABLES
  mem,       \* the members of the allocator
  blocks,    \* the block each client holds, and the size and the freed_before it asked for
  count,     \* timing_counter_
  freed_at,  \* history: when each byte was freed last, 0 once it is back with the device
  oom        \* history: the request that failed in the last step, 0 if none did

vars == <<mem, blocks, count, freed_at, oom>>

Null == -1
NoHandle == 0         \* kInvalidChunkHandle; handles count from 1
NoBin == -1           \* kInvalidBinNum
Addresses == 0 .. DeviceSize - 1

RoundedBytes(n) ==
  kMinAllocationSize * ((n + kMinAllocationSize - 1) \div kMinAllocationSize)

(* min(kNumBins - 1, floor(log2(max(bytes, 256) >> 8))) *)
BinNumForSize(n) ==
  LET v == Max({n, kMinAllocationSize}) \div kMinAllocationSize
  IN  Max({b \in 0 .. kNumBins - 1 : 2^b <= v})

NoBlock == [ptr |-> Null, size |-> 0, before |-> 0]

Init ==
  /\ \E setup \in Setups : mem =
           [chunks  |-> <<>>,                          \* chunks_
            gc      |-> setup.gc,                      \* garbage_collection_
            timed   |-> setup.timed,                   \* timing_counter_ is set
            spare   |-> <<>>,                          \* free_chunks_list_
            handle  |-> [a \in Addresses |-> NoHandle],\* the regions' handles_
            regions |-> {},                            \* region_manager_.regions()
            curr    |-> RoundedBytes(Min({MemoryLimit, FirstRegion})),
            total   |-> 0,                             \* total_region_allocated_bytes_
            backpedal |-> FALSE,                       \* started_backpedal_
            hung    |-> FALSE,                         \* a call has looped for ever or died
            timestamped |-> <<>>,                      \* timestamped_chunks_
            frontier |-> 0,                            \* safe_frontier_
            in_use  |-> 0]                             \* stats_.bytes_in_use
  /\ blocks = [c \in Clients |-> NoBlock]
  /\ count = 0
  /\ freed_at = [a \in Addresses |-> 0]
  /\ oom = 0

--------------------------------------------------------------------------------
(* Chunks *)

Live(m) == {m.handle[a] : a \in Addresses} \ {NoHandle}

(* AllocateChunk: the handle it returns, and chunks_ with `c' under it. *)
NextHandle(m) == IF m.spare = <<>> THEN Len(m.chunks) + 1 ELSE Head(m.spare)
AllocateChunk(m, c) ==
  [m EXCEPT !.chunks = IF m.spare = <<>> THEN Append(@, c)
                                         ELSE [@ EXCEPT ![Head(m.spare)] = c],
            !.spare = IF @ = <<>> THEN @ ELSE Tail(@),
            !.handle = [@ EXCEPT ![c.ptr] = NextHandle(m)]]

(* DeleteChunk with DeallocateChunk: ptr and size keep their last values. *)
DeleteChunk(m, h) ==
  [m EXCEPT !.handle = [@ EXCEPT ![m.chunks[h].ptr] = NoHandle],
            !.chunks[h] = [@ EXCEPT !.used = FALSE, !.bin = NoBin],
            !.spare = <<h>> \o @]

InsertFreeChunkIntoBin(m, h) ==
  [m EXCEPT !.chunks[h].bin = BinNumForSize(m.chunks[h].size)]

RemoveFreeChunkFromBin(m, h) == [m EXCEPT !.chunks[h].bin = NoBin]

(* The chunk n, if there is one, gets p for its predecessor. *)
SetPrev(m, n, p) == IF n = NoHandle THEN m ELSE [m EXCEPT !.chunks[n].prev = p]

(* Fault: the remainder of a split counts as never freed. *)
ForgetFreedAt(m, h) == 0

InheritFreedAt(m, h) == m.chunks[h].freed

SplitChunk(m, h, n) ==
  LET c == m.chunks[h]
      new == [ptr |-> c.ptr + n, size |-> c.size - n, used |-> FALSE, prev |-> h,
              next |-> c.next, bin |-> NoBin, freed |-> InheritFreedAt(m, h)]
      h_new == NextHandle(m)
      m1 == AllocateChunk(m, new)
      m2 == [m1 EXCEPT !.chunks[h] = [@ EXCEPT !.size = n, !.next = h_new]]
  IN  InsertFreeChunkIntoBin(SetPrev(m2, c.next, h_new), h_new)

(* Fault: the successor of a merged chunk keeps its old predecessor. *)
KeepPrev(m, n, p) == m

FixPrev(m, n, p) == SetPrev(m, n, p)

Merge(m, h1, h2) ==
  LET c1 == m.chunks[h1]
      c2 == m.chunks[h2]
      m1 == [m EXCEPT !.chunks[h1] = [c1 EXCEPT !.next = c2.next, !.size = c1.size + c2.size,
                                                !.freed = Max({c1.freed, c2.freed})]]
  IN  DeleteChunk(FixPrev(m1, c2.next, h1), h2)

Mergeable(m, h, ignore_freed_at) ==
  /\ h # NoHandle /\ ~m.chunks[h].used
  /\ m.chunks[h].freed = 0 \/ ignore_freed_at

(* Fault: a chunk is not merged into the one before it. *)
CoalesceWithNext(m, h, ignore_freed_at) ==
  LET n == m.chunks[h].next
  IN  IF (~ignore_freed_at /\ m.chunks[h].freed > 0) \/ ~Mergeable(m, n, ignore_freed_at)
        THEN [m |-> m, h |-> h]
        ELSE [m |-> Merge(RemoveFreeChunkFromBin(m, n), h, n), h |-> h]

(* The handle of the chunk that h has become a part of, and the members. *)
TryToCoalesce(m, h, ignore_freed_at) ==
  LET n == m.chunks[h].next
      m1 == IF Mergeable(m, n, ignore_freed_at)
              THEN Merge(RemoveFreeChunkFromBin(m, n), h, n) ELSE m
      p == m1.chunks[h].prev
  IN  IF ~ignore_freed_at /\ m.chunks[h].freed > 0 THEN [m |-> m, h |-> h]
      ELSE IF Mergeable(m1, p, ignore_freed_at)
        THEN [m |-> Merge(RemoveFreeChunkFromBin(m1, p), p, h), h |-> p]
        ELSE [m |-> m1, h |-> h]

--------------------------------------------------------------------------------
(* MergeTimestampedChunks(required): [m, ok], ok if a chunk of that size came out. *)

(* An entry of timestamped_chunks_ is skipped if its chunk was merged into *)
(* another or allocated again.                                             *)
Current(m, h) ==
  LET c == m.chunks[h]
  IN  m.handle[c.ptr] # NoHandle /\ ~c.used /\ c.bin # NoBin

Safe(m, h) == m.chunks[h].freed = 0 \/ m.chunks[h].freed < m.frontier

MergeOne(required, acc, ptr) ==
  LET h == acc.m.handle[ptr]
      t == TryToCoalesce(RemoveFreeChunkFromBin(acc.m, h), h, required > 0)
      m1 == InsertFreeChunkIntoBin(t.m, t.h)
      c == m1.chunks[t.h]
  IN  IF h = NoHandle THEN acc
      ELSE IF required = 0 THEN [acc EXCEPT !.m = m1]
      ELSE IF acc.ok THEN [acc EXCEPT !.m.timestamped = Append(@, h)]
      ELSE [m |-> IF t.h # h /\ c.freed > 0
                    THEN [m1 EXCEPT !.timestamped = Append(@, t.h)] ELSE m1,
            ok |-> c.size >= required]

(* The first loop takes timestamped_chunks_ apart: the chunks to merge, by   *)
(* their address, and those that have to wait.                               *)
TakeOne(required, x, h) ==
  LET ptr == x.m.chunks[h].ptr
  IN  IF ~Current(x.m, h) THEN x
      ELSE IF Safe(x.m, h)
        THEN [x EXCEPT !.m.chunks[h].freed = 0, !.to_merge = Append(@, ptr)]
      ELSE IF required > 0 THEN [x EXCEPT !.to_merge = Append(@, ptr)]
      ELSE [x EXCEPT !.kept = Append(@, x.m.handle[ptr])]

TakeApart(m, required) ==
  LET X[k \in 0 .. Len(m.timestamped)] ==
        IF k = 0 THEN [m |-> m, to_merge |-> <<>>, kept |-> <<>>]
        ELSE TakeOne(required, X[k-1], m.timestamped[k])
  IN  X[Len(m.timestamped)]

MergeAll(m, required, to_merge) ==
  LET X[k \in 0 .. Len(to_merge)] ==
        IF k = 0 THEN [m |-> m, ok |-> required = 0]
        ELSE MergeOne(required, X[k-1], to_merge[k])
  IN  X[Len(to_merge)]

MergeTimestampedChunks(m, required) ==
  LET x == TakeApart(m, required)
  IN  MergeAll([x.m EXCEPT !.timestamped = x.kept], required, x.to_merge)

--------------------------------------------------------------------------------
(* Regions *)

Chunk(m, r) == m.handle[r.ptr]
ChunksOf(m, r) == {h \in Live(m) : m.chunks[h].ptr \in r.ptr .. r.ptr + r.size - 1}

(* The bytes of a set of regions.  Regions do not overlap, so that the number *)
(* of these bytes is the sum of the regions' sizes.                           *)
Bytes(S) == UNION {r.ptr .. r.ptr + r.size - 1 : r \in S}

(* SubAllocator::Alloc *)
Holes(m, bytes) ==
  {a \in Addresses : /\ a + bytes <= DeviceSize
                     /\ \A r \in m.regions : a + bytes <= r.ptr \/ r.ptr + r.size <= a}
SubAlloc(m, bytes) == IF Holes(m, bytes) = {} THEN Null ELSE Min(Holes(m, bytes))

(* `while (rounded > curr) curr *= 2', in the width of size_t: what it stops at. *)
(* If SizeBits doublings are not enough it has come to 0 and does not stop.      *)

Twice(n) == (2 * n) % 2^SizeBits

Doubled(curr, rounded) ==
  LET D[k \in 0 .. SizeBits] == IF k = 0 THEN curr
                      ELSE IF D[k-1] >= rounded THEN D[k-1] ELSE Twice(D[k-1])
  IN  D[SizeBits]

(* The sizes that back-pedalling tries in turn: bytes, 9/10 of it and so on.  *)
(* Where the rounding up makes up for the factor the loop stands still, and   *)
(* else it is over after that many steps.                                     *)
Backpedal(n) == RoundedBytes((n * BackpedalNum) \div BackpedalDen)
Tried(bytes, rounded) ==
  LET steps == bytes + kMinAllocationSize
      T[k \in 0 .. steps] == IF k = 0 THEN bytes ELSE Backpedal(T[k-1])
  IN  {n \in {T[k] : k \in 0 .. steps} : n >= rounded}

Available(m) == ((MemoryLimit - m.total) \div kMinAllocationSize) * kMinAllocationSize

(* Extend: [m, ok]. *)
Extend(m, rounded) ==
  LET available == Available(m)
      curr == Doubled(m.curr, rounded)
      bytes == Min({curr, available})
      direct == SubAlloc(m, bytes) # Null
      tried == {n \in Tried(bytes, rounded) : SubAlloc(m, n) # Null}
      stuck == \E n \in Tried(bytes, rounded) : Backpedal(n) = n /\ \A k \in tried : k < n
      got == IF direct THEN bytes ELSE IF m.backpedal \/ tried = {} THEN 0 ELSE Max(tried)
      chunk == [ptr |-> SubAlloc(m, got), size |-> got, used |-> FALSE, prev |-> NoHandle,
                next |-> NoHandle, bin |-> NoBin, freed |-> 0]
      m1 == [m EXCEPT !.curr = curr, !.backpedal = @ \/ ~direct]
      m2 == [m1 EXCEPT !.curr = IF rounded <= m.curr THEN Twice(@) ELSE @,
                       !.total = @ + got,
                       !.regions = @ \cup {[ptr |-> chunk.ptr, size |-> got]}]
  IN  IF rounded > available THEN [m |-> m, ok |-> FALSE]
      ELSE IF curr < rounded \/ (~direct /\ ~m.backpedal /\ stuck)
        THEN [m |-> [m EXCEPT !.hung = TRUE], ok |-> FALSE]
      ELSE IF got = 0 THEN [m |-> m1, ok |-> FALSE]
      ELSE [m |-> InsertFreeChunkIntoBin(AllocateChunk(m2, chunk), NextHandle(m2)),
            ok |-> TRUE]

TotalWithout(m, free) == m.total - Cardinality(Bytes(free))

(* The chunks of these regions go, one by one in the order of their addresses. *)
DeleteChunks(m, free) ==
  LET gone == UNION {ChunksOf(m, r) : r \in free}
      X[k \in 0 .. DeviceSize] ==
        IF k = 0 THEN m
        ELSE IF m.handle[k-1] \in gone THEN DeleteChunk(X[k-1], m.handle[k-1]) ELSE X[k-1]
  IN  X[DeviceSize]

DeallocateRegions(m, free) ==
  [DeleteChunks(m, free) EXCEPT !.regions = @ \ free, !.total = TotalWithout(m, free)]

(* Fault: a region whose first chunk is free counts as free. *)
FirstChunkFree(m, r) == ~m.chunks[Chunk(m, r)].used

RegionFree(m, r) == \A h \in ChunksOf(m, r) : ~m.chunks[h].used

(* DeallocateFreeRegions: [m, ok]. *)
DeallocateFreeRegions(m, rounded) ==
  LET free == {r \in m.regions : RegionFree(m, r)}
      available == MemoryLimit - m.total + Cardinality(Bytes(free))
  IN  IF ~m.gc \/ free = {} \/ rounded > available
        THEN [m |-> m, ok |-> FALSE]
        ELSE [m |-> DeallocateRegions(m, free), ok |-> TRUE]

--------------------------------------------------------------------------------
Splits(size, rounded) == size >= rounded * 2 \/ size - rounded >= kMaxInternalFragmentation

FreedInTime(c, freed_before) == ~(freed_before > 0 /\ freed_before < c.freed)

(* FindChunkPtr: [m, ptr].  The bins from the request's on are searched in  *)
(* order, each from its smallest chunk.                                     *)
FindChunkPtr(m, rounded, freed_before) ==
  LET fits == {h \in Live(m) :
                 /\ m.chunks[h].bin >= BinNumForSize(rounded)
                 /\ FreedInTime(m.chunks[h], freed_before)
                 /\ m.chunks[h].size >= rounded}
      Before(g, h) == LET b == m.chunks[g] c == m.chunks[h] IN
        \/ b.bin < c.bin
        \/ b.bin = c.bin /\ (b.size < c.size \/ (b.size = c.size /\ b.ptr <= c.ptr))
      h == CHOOSE g \in fits : \A f \in fits : Before(g, f)
      m1 == RemoveFreeChunkFromBin(m, h)
      m2 == IF Splits(m.chunks[h].size, rounded) THEN SplitChunk(m1, h, rounded) ELSE m1
  IN  IF fits = {} THEN [m |-> m, ptr |-> Null]
      ELSE [m |-> [m2 EXCEPT !.chunks[h].used = TRUE, !.in_use = @ + m2.chunks[h].size],
            ptr |-> m2.chunks[h].ptr]

(* The attempts of AllocateRawInternal: [m, ptr].  Each is made, if those before *)
(* it gave nothing, with what they left behind.                                  *)
Done(x) == x.ptr # Null \/ x.m.hung
FindIf(e, rounded, freed_before) ==
  IF e.ok THEN FindChunkPtr(e.m, rounded, freed_before) ELSE [m |-> e.m, ptr |-> Null]
ExtendIf(d, rounded) == IF d.ok THEN Extend(d.m, rounded) ELSE d

TryExtend(x, rounded, freed_before) ==
  IF Done(x) THEN x ELSE FindIf(Extend(x.m, rounded), rounded, freed_before)
TryForcedMerge(x, rounded, freed_before) ==
  IF Done(x) \/ freed_before # 0 \/ x.m.timestamped = <<>> THEN x
  ELSE FindIf(MergeTimestampedChunks(x.m, rounded), rounded, freed_before)
TryCollect(x, rounded, freed_before) ==
  IF Done(x) THEN x
  ELSE FindIf(ExtendIf(DeallocateFreeRegions(x.m, rounded), rounded), rounded, freed_before)

(* All attempts but the last, and the regions that the last gives back. *)
FirstAttempts(m, rounded, freed_before) ==
  LET f1 == FindChunkPtr(MergeTimestampedChunks(m, 0).m, rounded, freed_before)
      f2 == TryExtend(f1, rounded, freed_before)
  IN  TryForcedMerge(f2, rounded, freed_before)
GivenBack(x, rounded) ==
  IF Done(x) THEN {} ELSE x.m.regions \ DeallocateFreeRegions(x.m, rounded).m.regions

(* The entries of timestamped_chunks_ whose chunks went with their regions.   *)
(* get_handle takes the first region that ends after an address.  Without one *)
(* it is LOG(FATAL); where that region begins after the address it reads      *)
(* outside of handles_, so that the process dies or the entry is skipped.     *)
Strays(m) == {h \in ToSet(m.timestamped) : m.chunks[h].ptr \notin Bytes(m.regions)}
NoRegionFor(m, h) == \A r \in m.regions : r.ptr + r.size <= m.chunks[h].ptr

(* AllocateRaw with AllocateRawInternal.  What SubAllocator::Free takes back the *)
(* device is done with.                                                          *)
AllocateRaw(c, n, freed_before) ==
  LET rounded == RoundedBytes(n) IN
  /\ ~mem.hung /\ blocks[c] = NoBlock
  /\ \/ /\ \A h \in Strays(mem) : ~NoRegionFor(mem, h)
        /\ \E x \in {FirstAttempts(mem, rounded, freed_before)} :
           \E r \in {TryCollect(x, rounded, freed_before)} :
             /\ mem' = r.m
             /\ blocks' = IF r.ptr = Null THEN blocks
                          ELSE [blocks EXCEPT ![c] = [ptr |-> r.ptr, size |-> n, before |-> freed_before]]
             /\ freed_at' = [a \in Addresses |->
                  IF a \in Bytes(GivenBack(x, rounded)) THEN 0 ELSE freed_at[a]]
             /\ oom' = IF r.ptr = Null /\ ~r.m.hung THEN rounded ELSE 0
     \/ /\ Strays(mem) # {}
        /\ mem' = [mem EXCEPT !.hung = TRUE]
        /\ oom' = 0
        /\ UNCHANGED <<blocks, freed_at>>
  /\ UNCHANGED count

(* DeallocateRaw with MarkFree. *)
DeallocateRaw(c) ==
  LET h == mem.handle[blocks[c].ptr]
      k == mem.chunks[h]
      now == IF mem.timed THEN count + 1 ELSE 0
      m1 == [mem EXCEPT !.chunks[h] = [k EXCEPT !.used = FALSE,
                                                !.freed = IF mem.timed THEN now ELSE k.freed],
                        !.in_use = @ - k.size]
      t == TryToCoalesce(m1, h, FALSE)
  IN  /\ ~mem.hung /\ blocks[c] # NoBlock
      /\ mem.timed => count < MaxCount
      /\ mem' = IF mem.timed
                  THEN [InsertFreeChunkIntoBin(m1, h) EXCEPT !.timestamped = Append(@, h)]
                  ELSE InsertFreeChunkIntoBin(t.m, t.h)
      /\ count' = now
      /\ freed_at' = [a \in Addresses |->
           IF a \in k.ptr .. k.ptr + k.size - 1 THEN now ELSE freed_at[a]]
      /\ blocks' = [blocks EXCEPT ![c] = NoBlock]
      /\ oom' = 0

SetSafeFrontier(n) ==
  /\ ~mem.hung /\ n > mem.frontier
  /\ mem' = [mem EXCEPT !.frontier = n]
  /\ oom' = 0
  /\ UNCHANGED <<blocks, count, freed_at>>

Next ==
  \/ \E c \in Clients, n \in Requests : AllocateRaw(c, n, 0)
  \/ \E c \in Clients, n \in Requests, t \in 1 .. count : AllocateRaw(c, n, t)
  \/ \E c \in Clients : DeallocateRaw(c)
  \/ \E n \in 1 .. count : SetSafeFrontier(n)

Spec == Init /\ [][Next]_vars

--------------------------------------------------------------------------------
End(h) == mem.chunks[h].ptr + mem.chunks[h].size
InRegion(h, r) == h \in ChunksOf(mem, r)

(* "Chunks ... together cover the whole region without gaps": every byte of a *)
(* region is in one chunk, and from the first chunk on, next leads from       *)
(* neighbour to neighbour to the region's end and prev leads back, whatever   *)
(* was split, merged or collected.                                            *)
ChunksTileRegions ==
  /\ \A h \in Live(mem) : \E r \in mem.regions : InRegion(h, r) /\ End(h) <= r.ptr + r.size
  /\ \A r \in mem.regions :
       /\ Chunk(mem, r) # NoHandle /\ mem.chunks[Chunk(mem, r)].prev = NoHandle
       /\ \A a \in r.ptr .. r.ptr + r.size - 1 :
            \E h \in ChunksOf(mem, r) : {h} = {g \in Live(mem) : mem.chunks[g].ptr <= a /\ a < End(g)}
       /\ \A h \in ChunksOf(mem, r) :
            LET n == mem.chunks[h].next IN
            IF End(h) = r.ptr + r.size THEN n = NoHandle
            ELSE n = mem.handle[End(h)] /\ n # NoHandle /\ mem.chunks[n].prev = h

(* No byte belongs to two clients, every client has at least what it asked *)
(* for, and the statistics count the bytes of the chunks in use.           *)
BlocksDisjoint ==
  LET Held == {c \in Clients : blocks[c] # NoBlock}
      H(c) == mem.handle[blocks[c].ptr]
  IN  /\ \A c \in Held : /\ H(c) # NoHandle /\ mem.chunks[H(c)].used
                         /\ mem.chunks[H(c)].size >= blocks[c].size
      /\ \A c, d \in Held : c # d => End(H(c)) <= blocks[d].ptr \/ End(H(d)) <= blocks[c].ptr
      /\ mem.in_use = Cardinality(UNION {blocks[c].ptr .. End(H(c)) - 1 : c \in Held})
      /\ \A h \in Live(mem) : mem.chunks[h].used => \E c \in Held : H(c) = h

(* n bytes of a region in a row, none of them in use. *)
FreeStretch(m, n) ==
  \E r \in m.regions, a \in Addresses :
    /\ r.ptr <= a /\ a + n <= r.ptr + r.size
    /\ \A h \in Live(m) : LET c == m.chunks[h] IN
         c.used => c.ptr + c.size <= a \/ a + n <= c.ptr

(* What a step with a failed request shows of the memory it leaves. *)
OomIsTrue ==
  oom' > 0 /\ ~mem.timed =>
    /\ ~FreeStretch(mem', oom')
    /\ oom' <= Available(mem') =>
         /\ Holes(mem', Min({mem'.curr, Available(mem')})) = {}
         /\ ~mem.backpedal /\ mem'.regions = mem.regions =>
              \A n \in 1 .. DeviceSize : Backpedal(n) >= oom' => Holes(mem', n) = {}

(* Without a timing counter an allocation fails only if no stretch of free bytes *)
(* of a region would hold it, be they one chunk or several, and if the memory    *)
(* limit forbids a region for it or the device has no room for the region that   *)
(* Extend asks for.  That one may be larger than what the request needs: only as *)
(* long as Extend has not back-pedalled before, and no region was given back in  *)
(* the call, the device has no room either for any size that kBackpedalFactor    *)
(* leaves large enough.                                                          *)
NoFalseOom == [][OomIsTrue]_vars

(* A client that asks for memory freed by the time t gets none that was freed *)
(* after it and that the device may still use: splits and merges pass the     *)
(* latest time on, and a region that is collected takes its times along.      *)
FreedBeforeUse ==
  \A c \in Clients :
    blocks[c].before > 0 =>
      \A a \in blocks[c].ptr .. End(mem.handle[blocks[c].ptr]) - 1 :
        freed_at[a] <= blocks[c].before \/ freed_at[a] < mem.frontier
================================================================================
