----------------------------- MODULE MemoryPool -----------------------------
(***************************************************************************)
(* The static-buffer allocator: noxtls_malloc, noxtls_calloc,              *)
(* noxtls_realloc and noxtls_free on one byte array (builds with           *)
(* NOXTLS_USE_STATIC_BUFFERS), in its three modes: a first-fit list of     *)
(* blocks that are split and merged ("legacy"), fixed-size buckets         *)
(* ("buckets"), or buckets with the list behind them ("hybrid").           *)
(*                                                                         *)
(* An address is a byte of the buffer; a header occupies HeaderSize of     *)
(* them and its fields are kept apart, in pool.headers.  A byte of payload *)
(* is abstracted to who wrote it.  The statistics no operation reads       *)
(* (total_allocated, the high-water marks) and the record of the last      *)
(* failure are left out.  The library takes no lock: callers serialise.    *)
(***************************************************************************)
EXTENDS Integers, Sequences, FiniteSets, SequencesExt, FiniteSetsExt, Functions

CONSTANTS
    Alignment,        \* NOXTLS_MEM_ALIGNMENT (8 in the build)
    HeaderSize,       \* sizeof(mem_block_header_t)
    SizeMax,          \* SIZE_MAX
    BucketSizes,      \* NOXTLS_MEM_BUCKET_SIZES
    BucketCounts,     \* NOXTLS_MEM_BUCKET_COUNTS
    DefaultBuffer,    \* g_noxtls_default_pool, as [start, size]
    CallerBuffers,    \* buffers passed to noxtls_mem_init
    Modes,            \* NOXTLS_STATIC_ALLOCATOR_MODE
    Requests,         \* sizes asked for
    Owners,           \* callers; each holds at most one block
    Zero, Junk,       \* a cleared byte, a byte of a buffer that never was
    Header            \* a byte of a block header

ASSUME PoolAssumption ==
    /\ Alignment \in Nat \ {0} /\ HeaderSize \in Nat /\ SizeMax \in Nat
    /\ HeaderSize > 0 /\ HeaderSize % Alignment = 0
    /\ (SizeMax + 1) % Alignment = 0
    /\ BucketSizes \in Seq(Nat \ {0}) /\ BucketCounts \in Seq(Nat \ {0})
    /\ Len(BucketSizes) = Len(BucketCounts)
    /\ \A i \in DOMAIN BucketSizes : BucketSizes[i] <= SizeMax - (Alignment - 1)
    /\ \A b \in CallerBuffers \cup {DefaultBuffer} :
          b.start \in Nat /\ b.size \in Nat /\ b.start + b.size <= SizeMax
    /\ Modes \subseteq {"legacy", "buckets", "hybrid"}
    /\ Requests \subseteq 0 .. SizeMax
    /\ {Zero, Junk, Header} \cap Owners = {}

VARIABLES
    mode,     \* the build's allocator mode; never changes
    pool,     \* g_mem_pool, the headers and the bytes of its buffer
    live      \* the blocks callers hold: pointer -> [owner, size]

vars == <<mode, pool, live>>

NULL == 0
Buckets == DOMAIN BucketSizes

(* ALIGN_SIZE, in size_t. *)
AlignUp(n) == ((n + Alignment - 1) \div Alignment) * Alignment
AlignSize(size) == AlignUp(size) % (SizeMax + 1)

BucketSize(i) == AlignSize(BucketSizes[i])

(* noxtls_align_header_for_payload *)
HeaderAt(cursor) == AlignUp(cursor + HeaderSize) - HeaderSize

Payload(a, size) == a + HeaderSize .. a + HeaderSize + size - 1
HeaderBytes(a) == a .. a + HeaderSize - 1
EndOf(headers, a) == a + HeaderSize + headers[a].size

(* The function f with v at x, where it had nothing before. *)
Put(f, x, v) == [y \in DOMAIN f \cup {x} |-> IF y = x THEN v ELSE f[y]]

Fill(bytes, where, what) == [b \in DOMAIN bytes |-> IF b \in where THEN what ELSE bytes[b]]

Uninitialized ==
    [initialized |-> FALSE, start |-> 0, end |-> 0, headers |-> << >>, bytes |-> << >>,
     free_list |-> << >>, bucket_free_list |-> << >>, bucket_free |-> << >>,
     total_used |-> 0, fallback_used |-> 0]

Init ==
    /\ mode \in Modes
    /\ pool = Uninitialized
    /\ live = << >>

-----------------------------------------------------------------------------
(* noxtls_mem_init *)

(* The next block of bucket i, behind the blocks made before it. *)
AddBucketBlock(p, i) ==
    LET a == HeaderAt(p.cursor)
    IN  IF p.failed \/ a > p.end \/ p.end - a < HeaderSize + BucketSize(i)
        THEN [p EXCEPT !.failed = TRUE]
        ELSE [p EXCEPT
                !.headers = Put(@, a, [size |-> BucketSize(i), allocated |-> FALSE, bucket |-> i]),
                !.bucket_free_list[i] = <<a>> \o @,
                !.cursor = a + HeaderSize + BucketSize(i)]

(* noxtls_mem_init_buckets: for each bucket in turn, its blocks in turn.    *)
BucketBlocks(p, i) ==
    LET made[j \in 0 .. BucketCounts[i]] ==
            IF j = 0 THEN p ELSE AddBucketBlock(made[j - 1], i)
    IN  made

FilledBuckets(p) ==
    LET filled[i \in 0 .. Len(BucketSizes)] ==
            IF i = 0 THEN [p EXCEPT !.bucket_free = BucketCounts,
                                    !.bucket_free_list = [k \in Buckets |-> << >>]]
                     ELSE BucketBlocks(filled[i - 1], i)[BucketCounts[i]]
    IN  filled

InitBuckets(p) == FilledBuckets(p)[Len(BucketSizes)]

(* noxtls_mem_init_fallback: one block of all that is left. *)
InitFallback(p) ==
    LET a == HeaderAt(p.cursor)
    IN  IF p.failed \/ a >= p.end \/ p.end <= a + HeaderSize
        THEN [p EXCEPT !.failed = TRUE]
        ELSE [p EXCEPT
                !.headers = Put(@, a, [size |-> p.end - a - HeaderSize,
                                       allocated |-> FALSE, bucket |-> 0]),
                !.free_list = <<a>>]

(* The pool over a buffer, or Uninitialized when it is too small. The      *)
(* buffer of a caller is not cleared; the library's own is zero at start,  *)
(* and again after a cleanup.                                              *)
Initialized(buffer) ==
    LET end == buffer.start + buffer.size
        empty == [failed |-> buffer.size <= HeaderSize, cursor |-> buffer.start,
                  end |-> end, headers |-> << >>, free_list |-> << >>,
                  bucket_free_list |-> << >>, bucket_free |-> << >>]
        buckets == IF mode = "legacy" THEN empty ELSE InitBuckets(empty)
        p == IF mode = "buckets" THEN buckets ELSE InitFallback(buckets)
    IN  IF p.failed
        THEN Uninitialized
        ELSE [initialized |-> TRUE, start |-> buffer.start, end |-> end,
              headers |-> p.headers,
              bytes |-> Fill([b \in buffer.start .. end - 1 |->
                                 IF buffer = DefaultBuffer THEN Zero ELSE Junk],
                             UNION { HeaderBytes(a) : a \in DOMAIN p.headers }, Header),
              free_list |-> p.free_list, bucket_free_list |-> p.bucket_free_list,
              bucket_free |-> p.bucket_free,
              total_used |-> 0, fallback_used |-> 0]

(* A pool that is initialized refuses a second noxtls_mem_init. *)
MemInit(buffer) ==
    /\ ~ pool.initialized
    /\ pool' = Initialized(buffer)
    /\ UNCHANGED <<mode, live>>

(* noxtls_mem_cleanup: what callers still hold is gone. *)
MemCleanup ==
    /\ pool.initialized
    /\ pool' = Uninitialized
    /\ live' = << >>
    /\ UNCHANGED mode

-----------------------------------------------------------------------------
(* Allocation: the address of a header, or NULL, and the pool after it.    *)

None(p) == [header |-> NULL, pool |-> p, found |-> FALSE]
Took(p, a) ==
    [header |-> a, found |-> TRUE,
     pool |-> [p EXCEPT !.headers[a].allocated = TRUE,
                        !.total_used = @ + p.headers[a].size]]

(* noxtls_mem_alloc_bucket: the first bucket that is large enough and has  *)
(* a block left.                                                           *)
AllocBucket(p, aligned) ==
    LET fits == { i \in Buckets : BucketSize(i) >= aligned /\ p.bucket_free_list[i] # << >> }
        i == Min(fits)
    IN  IF fits = {}
        THEN None(p)
        ELSE Took([p EXCEPT !.bucket_free_list[i] = Tail(@), !.bucket_free[i] = @ - 1],
                  Head(p.bucket_free_list[i]))

(* The block is cut: its front is handed out, a new header describes the   *)
(* rest and takes its place in the list.                                   *)
Split(p, k, aligned) ==
    LET a == p.free_list[k]
        rest == a + HeaderSize + aligned
    IN  [p EXCEPT
           !.headers = Put([@ EXCEPT ![a].size = aligned], rest,
                           [size |-> p.headers[a].size - aligned - HeaderSize,
                            allocated |-> FALSE, bucket |-> 0]),
           !.bytes = Fill(@, HeaderBytes(rest), Header),
           !.free_list[k] = rest]

(* noxtls_mem_alloc_fallback: the first block that is large enough, split  *)
(* when the rest can hold a header and something behind it.                *)
AllocFallback(p, aligned) ==
    LET k == SelectInSeq(p.free_list, LAMBDA a : p.headers[a].size >= aligned)
        a == p.free_list[k]
        found == IF p.headers[a].size >= aligned + 2 * HeaderSize + Alignment
                 THEN Split(p, k, aligned)
                 ELSE [p EXCEPT !.free_list = RemoveAt(@, k)]
    IN  IF aligned > SizeMax - HeaderSize \/ k = 0
        THEN None(p)
        ELSE Took([found EXCEPT !.fallback_used = @ + found.headers[a].size], a)

\* Mutant: a block is looked for in the list only when no bucket is that large
FindBlockBySize(p, aligned) ==
    CASE mode = "legacy" -> AllocFallback(p, aligned)
      [] mode = "buckets" -> AllocBucket(p, aligned)
      [] mode = "hybrid" ->
            IF \E i \in Buckets : BucketSize(i) >= aligned
            THEN AllocBucket(p, aligned)
            ELSE AllocFallback(p, aligned)

FindBlock(p, aligned) ==
    CASE mode = "legacy" -> AllocFallback(p, aligned)
      [] mode = "buckets" -> AllocBucket(p, aligned)
      [] mode = "hybrid" ->
            LET bucket == AllocBucket(p, aligned)
            IN  IF bucket.found THEN bucket ELSE AllocFallback(p, aligned)

\* Mutant: the size is rounded up without the overflow check
AllocateUnchecked(p, size) ==
    IF size = 0 THEN None(p) ELSE FindBlock(p, AlignSize(size))

(* noxtls_mem_allocate_at, behind its lazy initialization. *)
Allocate(p, size) ==
    IF size = 0 \/ size > SizeMax - (Alignment - 1)
    THEN None(p)
    ELSE FindBlock(p, AlignSize(size))

(* The pool a call works on: initialized on first use. *)
Ready == IF pool.initialized THEN pool ELSE Initialized(DefaultBuffer)

-----------------------------------------------------------------------------
(* Release *)

Less(n, k) == IF n >= k THEN n - k ELSE 0

(* One step of noxtls_mem_coalesce_fallback: a block that begins where the *)
(* block before it in the list ends becomes part of it, and its header is  *)
(* cleared.                                                                *)
Merge(p, a) ==
    LET front == Last(p.free_list)
        size == p.headers[front].size + HeaderSize + p.headers[a].size
    IN  IF p.free_list # << >> /\ EndOf(p.headers, front) = a
        THEN [p EXCEPT
                !.headers = [b \in DOMAIN @ \ {a} |->
                               IF b = front THEN [@[b] EXCEPT !.size = size] ELSE @[b]],
                !.bytes = Fill(@, HeaderBytes(a), Zero)]
        ELSE [p EXCEPT !.free_list = Append(@, a)]

(* The list is kept in the order of addresses. *)
InsertOrdered(list, a) ==
    InsertAt(list, Min({ k \in 1 .. Len(list) + 1 : k > Len(list) \/ list[k] >= a }), a)

Coalesce(p, list) ==
    LET merged[n \in 0 .. Len(list)] ==
            IF n = 0 THEN [p EXCEPT !.free_list = << >>] ELSE Merge(merged[n - 1], list[n])
    IN  merged

(* noxtls_mem_free_fallback *)
FreeFallback(p, a) ==
    LET list == InsertOrdered(p.free_list, a)
    IN  Coalesce([p EXCEPT !.fallback_used = Less(@, p.headers[a].size)], list)[Len(list)]

FreeBucket(p, a) ==
    [p EXCEPT !.bucket_free_list[p.headers[a].bucket] = <<a>> \o @,
              !.bucket_free[p.headers[a].bucket] = @ + 1]

\* Mutant: only headers are looked at, not whether the block is free
HeaderValidUnchecked(p, a) == p.initialized /\ a \in DOMAIN p.headers

(* noxtls_mem_header_valid: of all addresses, only the header of an        *)
(* allocated block passes (payload does not hold the magic by accident).   *)
HeaderValid(p, a) ==
    /\ p.initialized
    /\ a \in DOMAIN p.headers
    /\ p.headers[a].allocated

(* noxtls_free: the whole payload is cleared, the block goes back to where *)
(* it came from; anything else is ignored.                                 *)
Free(p, ptr) ==
    LET a == ptr - HeaderSize
        cleared == [p EXCEPT
                      !.bytes = Fill(@, Payload(a, p.headers[a].size), Zero),
                      !.headers[a].allocated = FALSE,
                      !.total_used = Less(@, p.headers[a].size)]
    IN  IF ~ HeaderValid(p, a)
        THEN p
        ELSE IF p.headers[a].bucket # 0 THEN FreeBucket(cleared, a) ELSE FreeFallback(cleared, a)

-----------------------------------------------------------------------------
(* The operations, with what their callers do with the memory: a caller    *)
(* writes every byte it asked for, one that uses noxtls_calloc relies on   *)
(* the zeros.                                                              *)

Idle(owner) == \A ptr \in DOMAIN live : live[ptr].owner # owner

Written(p, ptr, from, to, tag) ==
    [p EXCEPT !.bytes = Fill(@, ptr + from .. ptr + to - 1, tag)]

(* noxtls_malloc *)
Malloc(owner, size) ==
    LET r == Allocate(Ready, size)
        ptr == r.header + HeaderSize
    IN  /\ Idle(owner)
        /\ IF Ready.initialized /\ r.found
           THEN /\ pool' = Written(r.pool, ptr, 0, size, owner)
                /\ live' = Put(live, ptr, [owner |-> owner, size |-> size, tag |-> owner])
           ELSE pool' = Ready /\ UNCHANGED live
        /\ UNCHANGED mode

(* noxtls_calloc; sizes whose product overflows are refused at once. *)
Calloc(owner, nmemb, size) ==
    LET r == Allocate(Ready, nmemb * size)
        ptr == r.header + HeaderSize
    IN  /\ Idle(owner)
        /\ nmemb * size <= SizeMax
        /\ IF Ready.initialized /\ r.found
           THEN /\ pool' = Written(r.pool, ptr, 0, nmemb * size, Zero)
                /\ live' = Put(live, ptr, [owner |-> owner, size |-> nmemb * size, tag |-> Zero])
           ELSE pool' = Ready /\ UNCHANGED live
        /\ UNCHANGED mode

ReleaseBlock(ptr) ==
    /\ pool' = Free(pool, ptr)
    /\ live' = Restrict(live, DOMAIN live \ {ptr})

(* noxtls_copy_u8 of the old block into the new one. *)
Copied(p, from, to, len) ==
    [p EXCEPT !.bytes = [b \in DOMAIN @ |-> IF b \in to .. to + len - 1 THEN @[from + b - to] ELSE @[b]]]

\* Mutant: the old block is freed, and cleared, before it is copied
MovedAfterFree(p, from, to, len) == Copied(Free(p, from), from, to, len)

Moved(p, from, to, len) == Free(Copied(p, from, to, len), from)

(* noxtls_realloc of a block the caller holds: freed (size 0), kept when   *)
(* it is large enough, or moved. The caller then writes what is new. When  *)
(* nothing is found the block stays.                                       *)
Realloc(ptr, size) ==
    LET block == live[ptr]
        old_size == pool.headers[ptr - HeaderSize].size
        r == Allocate(pool, size)
        new == r.header + HeaderSize
        moved == Moved(r.pool, ptr, new, old_size)
    IN  /\ \/ /\ size = 0
              /\ ReleaseBlock(ptr)
           \/ /\ size > 0 /\ size <= old_size
              /\ pool' = Written(pool, ptr, block.size, size, block.tag)
              /\ live' = [live EXCEPT ![ptr].size = size]
           \/ /\ size > old_size /\ r.found
              /\ pool' = Written(moved, new, block.size, size, block.tag)
              /\ live' = Put(Restrict(live, DOMAIN live \ {ptr}), new, [block EXCEPT !.size = size])
        /\ UNCHANGED mode

(* noxtls_free of a block its caller holds. *)
FreeLive(ptr) == ReleaseBlock(ptr) /\ UNCHANGED mode

(* noxtls_free of a pointer nobody holds: freed before, or from a pool     *)
(* that was cleaned up.                                                    *)
FreeStale(ptr) ==
    /\ ptr \notin DOMAIN live
    /\ pool' = Free(pool, ptr)
    /\ UNCHANGED <<mode, live>>

Next ==
    \/ \E buffer \in CallerBuffers : MemInit(buffer)
    \/ MemCleanup
    \/ \E owner \in Owners, size \in Requests : Malloc(owner, size)
    \/ \E owner \in Owners, nmemb \in {1, 2}, size \in Requests : Calloc(owner, nmemb, size)
    \/ \E ptr \in DOMAIN live, size \in Requests : Realloc(ptr, size)
    \/ \E ptr \in DOMAIN live : FreeLive(ptr)
    \/ \E ptr \in DOMAIN pool.bytes : FreeStale(ptr)

Spec == Init /\ [][Next]_vars

-----------------------------------------------------------------------------
(* Properties *)

Headers == DOMAIN pool.headers
Allocated == { a \in Headers : pool.headers[a].allocated }
InList(a) == ~ pool.headers[a].allocated /\ pool.headers[a].bucket = 0

TypeOK ==
    /\ mode \in Modes
    /\ DOMAIN pool.bytes = pool.start .. pool.end - 1
    /\ \A b \in DOMAIN pool.bytes : pool.bytes[b] \in Owners \cup {Zero, Junk, Header}
    /\ \A a \in Headers :
          /\ a \in DOMAIN pool.bytes
          /\ pool.headers[a].size \in 1 .. SizeMax
          /\ pool.headers[a].allocated \in BOOLEAN
          /\ pool.headers[a].bucket \in {0} \cup Buckets
    /\ pool.total_used \in 0 .. SizeMax /\ pool.fallback_used \in 0 .. SizeMax

(* Blocks never overlap and no byte of the list's part of the buffer is    *)
(* lost to both: whatever was split by noxtls_mem_alloc_fallback and       *)
(* merged by noxtls_mem_coalesce_fallback, each block ends where the next  *)
(* begins, the last one where the buffer ends.                             *)
Tiling ==
    /\ \A a, b \in Headers : a < b => EndOf(pool.headers, a) <= b
    /\ \A a \in Headers :
          pool.headers[a].bucket = 0 =>
             EndOf(pool.headers, a) \in Headers \cup {pool.end}

(* A free block is in exactly one list, once: a block of the list in the   *)
(* order of addresses and merged with its free neighbours, a bucket block  *)
(* in its own bucket. Nothing a caller holds is in a list, and what is in  *)
(* none is held, also after calls of noxtls_free that repeat.              *)
FreeListsExact ==
    /\ { a + HeaderSize : a \in Allocated } = DOMAIN live
    /\ { a \in Headers : InList(a) } = Range(pool.free_list)
    /\ \A k \in 1 .. Len(pool.free_list) - 1 :
          EndOf(pool.headers, pool.free_list[k]) < pool.free_list[k + 1]
    /\ \A i \in DOMAIN pool.bucket_free_list :
          /\ IsInjective(pool.bucket_free_list[i])
          /\ Range(pool.bucket_free_list[i])
                = { a \in Headers \ Allocated : pool.headers[a].bucket = i }

(* The counters noxtls_mem_get_stats and noxtls_mem_get_bucket_stats       *)
(* report are those of the blocks callers hold (their bytes, which no two  *)
(* share): nothing leaks or is freed twice in the accounts, and the        *)
(* guarded subtractions never saturate.                                    *)
CountersExact ==
    LET held(s) == Cardinality(UNION { Payload(a, pool.headers[a].size) : a \in s })
    IN  /\ pool.total_used = held(Allocated)
        /\ pool.fallback_used = held({ a \in Allocated : pool.headers[a].bucket = 0 })
        /\ \A i \in DOMAIN pool.bucket_free :
              pool.bucket_free[i] = Len(pool.bucket_free_list[i])

(* What callers get is aligned (noxtls_align_header_for_payload), also     *)
(* behind a split and in a caller's buffer that is not.                    *)
PayloadsAligned == \A a \in Headers : (a + HeaderSize) % Alignment = 0

(* The allocator's own data is consistent after any order of calls: blocks *)
(* tile the buffer, lists and counters agree with them.                    *)
HeapConsistent == Tiling /\ PayloadsAligned /\ FreeListsExact /\ CountersExact

(* A caller finds in every byte it asked for what it left there (zeros     *)
(* from noxtls_calloc), also when noxtls_realloc moved the block: no other *)
(* caller and no header shares its bytes.                                  *)
DataIntact ==
    \A ptr \in DOMAIN live :
        \A b \in ptr .. ptr + live[ptr].size - 1 :
            b \in DOMAIN pool.bytes /\ pool.bytes[b] = live[ptr].tag

(* "Clear the whole payload so no secret survives into the next            *)
(* allocation" (noxtls_free): memory that can be handed out holds neither  *)
(* the bytes of an earlier caller nor a header that was merged away.       *)
NothingSurvives ==
    \A a \in Headers \ Allocated :
        \A b \in Payload(a, pool.headers[a].size) : pool.bytes[b] \in {Zero, Junk}

(* The bytes of a block are its owner's alone: nobody changes them while   *)
(* it holds the block, nobody finds them after noxtls_free, noxtls_realloc *)
(* and the merging of free blocks.                                         *)
BytesPrivate == DataIntact /\ NothingSurvives

(* noxtls_malloc answers NULL only when no free block, in a bucket or in   *)
(* the list, could hold the request (noxtls_mem_largest_available_block is *)
(* what it then reports). One exception: the block at the end of a buffer  *)
(* whose end is not aligned may hold the request but not its rounding.     *)
FailsOnlyWhenFull ==
    \A size \in Requests \ {0} :
        pool.initialized /\ ~ Allocate(pool, size).found =>
            \A a \in Headers \ Allocated :
                \/ pool.headers[a].size < size
                \/ /\ EndOf(pool.headers, a) = pool.end
                   /\ pool.headers[a].size < AlignUp(size)

=============================================================================
