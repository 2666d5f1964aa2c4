-------------------------- MODULE MemoryPool_proofs --------------------------
(***************************************************************************)
(* The properties of MemoryPool, for every alignment, header size, number, *)
(* size and count of buckets, every buffer, set of requests and number of  *)
(* callers, in each of the three modes.                                    *)
(*                                                                         *)
(* Operations work on pool values, so the invariant is stated for a value  *)
(* (PoolOK), and each operation has a lemma that says what pool it makes   *)
(* of one that is OK and what it leaves alone (Untouched). The loops are   *)
(* recursive functions of the turn; what holds after a turn is proved by   *)
(* induction on the turns (Climb).                                         *)
(***************************************************************************)
EXTENDS MemoryPool, WellFoundedInduction, FiniteSetTheorems, SequenceTheorems, TLAPS

-----------------------------------------------------------------------------
(* The invariant *)

PoolFields ==
    {"initialized", "start", "end", "headers", "bytes", "free_list", "bucket_free_list",
     "bucket_free", "total_used", "fallback_used"}
BlockFields == {"size", "allocated", "bucket"}
LiveFields == {"owner", "size", "tag"}

Aligned(n) == n % Alignment = 0

(* Blocks lie between lo and hi, aligned, one behind the other *)
IsBlock(h) ==
    /\ DOMAIN h = BlockFields /\ h.size \in Nat \ {0} /\ h.allocated \in BOOLEAN
    /\ h.bucket \in {0} \cup Buckets
    /\ h.bucket # 0 => h.size = BucketSize(h.bucket)

BlocksOK(H, lo, hi) ==
    /\ \A a \in DOMAIN H :
          a \in Nat /\ IsBlock(H[a]) /\ lo <= a /\ EndOf(H, a) <= hi /\ Aligned(a + HeaderSize)
    /\ \A a, b \in DOMAIN H : a < b => EndOf(H, a) <= b

Tiled(H, hi) == \A a \in DOMAIN H : H[a].bucket = 0 => EndOf(H, a) \in DOMAIN H \cup {hi}

(* The lists hold the free blocks, but for the ones an operation has in hand *)
FreeIn(H, i) == { a \in DOMAIN H : ~ H[a].allocated /\ H[a].bucket = i }

Ordered(H, f) == \A k, m \in 1 .. Len(f) : k < m => EndOf(H, f[k]) < f[m]

ListOK(H, f, inHand) ==
    f \in Seq(Nat) /\ Ordered(H, f) /\ Range(f) = FreeIn(H, 0) \ inHand

BucketOK(H, i, f, count, inHand) ==
    f \in Seq(Nat) /\ IsInjective(f) /\ Range(f) = FreeIn(H, i) \ inHand /\ count = Len(f)

UsedBuckets == IF mode = "legacy" THEN {} ELSE Buckets

BucketsOK(H, lists, counts, inHand) ==
    /\ DOMAIN lists = UsedBuckets /\ DOMAIN counts = UsedBuckets
    /\ \A i \in UsedBuckets : BucketOK(H, i, lists[i], counts[i], inHand)

(* Each mode has its kinds of blocks *)
KindsOK(H) ==
    /\ \A a \in DOMAIN H : H[a].bucket \in {0} \cup UsedBuckets
    /\ mode = "buckets" => \A a \in DOMAIN H : H[a].bucket # 0

(* Free memory is clean *)
Tags == Owners \cup {Zero, Junk, Header}

BytesOK(B, lo, hi) == DOMAIN B = lo .. hi - 1 /\ \A b \in DOMAIN B : B[b] \in Tags

Clean(H, B) ==
    \A a \in DOMAIN H : ~ H[a].allocated =>
        \A b \in Payload(a, H[a].size) : B[b] \in {Zero, Junk}

(* The counters are those of the allocated blocks *)
AllocatedIn(H) == { a \in DOMAIN H : H[a].allocated }
ListAllocated(H) == { a \in AllocatedIn(H) : H[a].bucket = 0 }
Used(H, S) == UNION { Payload(a, H[a].size) : a \in S }

ShapeOK(p, inHand) ==
    /\ DOMAIN p = PoolFields /\ p.initialized = TRUE
    /\ p.start \in Nat /\ p.end \in Nat /\ p.end <= SizeMax
    /\ BlocksOK(p.headers, p.start, p.end) /\ Tiled(p.headers, p.end) /\ KindsOK(p.headers)
    /\ ListOK(p.headers, p.free_list, inHand)
    /\ BucketsOK(p.headers, p.bucket_free_list, p.bucket_free, inHand)
    /\ BytesOK(p.bytes, p.start, p.end) /\ Clean(p.headers, p.bytes)

CountersOK(p) ==
    /\ p.total_used = Cardinality(Used(p.headers, AllocatedIn(p.headers)))
    /\ p.fallback_used = Cardinality(Used(p.headers, ListAllocated(p.headers)))

PoolOK(p) == ShapeOK(p, {}) /\ CountersOK(p)

(* What callers hold are the allocated blocks, with the bytes they left *)
HoldOK(p, ptr, hold) ==
    /\ DOMAIN hold = LiveFields /\ hold.size \in Nat /\ hold.tag \in Owners \cup {Zero}
    /\ hold.size <= p.headers[ptr - HeaderSize].size
    /\ \A b \in ptr .. ptr + hold.size - 1 : p.bytes[b] = hold.tag

LiveOK(p, held) ==
    /\ DOMAIN held = { a + HeaderSize : a \in AllocatedIn(p.headers) }
    /\ \A ptr \in DOMAIN held : HoldOK(p, ptr, held[ptr])

Inv ==
    /\ mode \in Modes
    /\ \/ pool = Uninitialized /\ DOMAIN live = {}
       \/ PoolOK(pool) /\ LiveOK(pool, live)

-----------------------------------------------------------------------------
(* Arithmetic *)

LEMMA Constants ==
    /\ Alignment \in Nat \ {0} /\ HeaderSize \in Nat \ {0} /\ SizeMax \in Nat
    /\ Aligned(HeaderSize) /\ HeaderSize >= Alignment
<1>1. /\ Alignment \in Nat \ {0} /\ HeaderSize \in Nat \ {0} /\ SizeMax \in Nat
      /\ Aligned(HeaderSize)
  BY PoolAssumption DEF Aligned
<1>2. HeaderSize >= Alignment
  BY <1>1 DEF Aligned
<1> QED
  BY <1>1, <1>2

LEMMA Multiples ==
    ASSUME NEW n \in Nat
    PROVE  Aligned(n) <=> \E q \in Nat : n = q * Alignment
<1>1. Alignment \in Nat \ {0}
  BY Constants
<1>2. ASSUME n % Alignment = 0 PROVE \E q \in Nat : n = q * Alignment
  BY <1>1, <1>2
<1>3. ASSUME NEW q \in Nat, n = q * Alignment PROVE n % Alignment = 0
  BY <1>1, <1>3
<1> QED
  BY <1>2, <1>3 DEF Aligned

LEMMA AlignedSum ==
    ASSUME NEW x \in Nat, NEW y \in Nat, Aligned(x), Aligned(y)
    PROVE  Aligned(x + y) /\ (y <= x => Aligned(x - y))
<1>1. Alignment \in Nat \ {0}
  BY Constants
<1>2. PICK q \in Nat : x = q * Alignment
  BY Multiples
<1>3. PICK r \in Nat : y = r * Alignment
  BY Multiples
<1>4. Aligned(x + y)
  <2>1. x + y = (q + r) * Alignment
    BY <1>1, <1>2, <1>3
  <2> QED
    BY <2>1, Multiples
<1>5. ASSUME y <= x PROVE Aligned(x - y)
  <2>1. r <= q
    BY <1>1, <1>2, <1>3, <1>5
  <2>2. x - y = (q - r) * Alignment
    BY <1>1, <1>2, <1>3
  <2>3. q - r \in Nat /\ x - y \in Nat
    BY <2>1, <1>5
  <2> QED
    BY <2>2, <2>3, Multiples
<1> QED
  BY <1>4, <1>5

(* AlignUp(n) is the least aligned number from n on *)
LEMMA AlignUpFacts ==
    ASSUME NEW n \in Nat
    PROVE  /\ AlignUp(n) \in Nat /\ Aligned(AlignUp(n))
           /\ n <= AlignUp(n) /\ AlignUp(n) <= n + Alignment - 1
           /\ \A m \in Nat : Aligned(m) /\ n <= m => AlignUp(n) <= m
<1>1. Alignment \in Nat \ {0}
  BY Constants
<1> DEFINE q == (n + Alignment - 1) \div Alignment
<1>2. q \in Nat /\ q * Alignment <= n + Alignment - 1 /\ n + Alignment - 1 < q * Alignment + Alignment
  BY <1>1
<1>3. AlignUp(n) = q * Alignment
  BY DEF AlignUp
<1> HIDE DEF q
<1>4. q * Alignment \in Nat
  BY <1>1, <1>2
<1>5. Aligned(AlignUp(n))
  BY <1>2, <1>3, <1>4, Multiples
<1>6. ASSUME NEW m \in Nat, Aligned(m), n <= m PROVE AlignUp(n) <= m
  <2>1. PICK k \in Nat : m = k * Alignment
    BY <1>6, Multiples
  <2>2. q <= k
    <3>1. SUFFICES ASSUME k + 1 <= q PROVE FALSE
      BY <1>2
    <3>2. (k + 1) * Alignment <= q * Alignment
      BY <1>1, <1>2, <3>1
    <3>3. (k + 1) * Alignment = m + Alignment
      BY <1>1, <2>1
    <3> QED
      BY <1>1, <1>2, <1>4, <1>6, <3>2, <3>3
  <2> QED
    BY <1>1, <1>2, <1>3, <2>1, <2>2
<1> QED
  BY <1>1, <1>2, <1>3, <1>4, <1>5, <1>6

LEMMA AlignSizeFacts ==
    ASSUME NEW n \in Nat, n <= SizeMax - (Alignment - 1)
    PROVE  AlignSize(n) = AlignUp(n)
<1>1. AlignUp(n) \in Nat /\ AlignUp(n) <= SizeMax
  BY AlignUpFacts, Constants
<1> QED
  BY <1>1, Constants DEF AlignSize

LEMMA BucketFacts ==
    /\ Buckets = 1 .. Len(BucketSizes) /\ Len(BucketSizes) \in Nat
    /\ DOMAIN BucketCounts = Buckets
    /\ \A i \in Buckets :
          BucketSize(i) \in Nat \ {0} /\ Aligned(BucketSize(i)) /\ BucketCounts[i] \in Nat \ {0}
<1>1. /\ Buckets = 1 .. Len(BucketSizes) /\ Len(BucketSizes) \in Nat
      /\ DOMAIN BucketCounts = Buckets
      /\ \A i \in Buckets : /\ BucketSizes[i] \in Nat \ {0} /\ BucketCounts[i] \in Nat \ {0}
                            /\ BucketSizes[i] <= SizeMax - (Alignment - 1)
  BY PoolAssumption DEF Buckets
<1>2. \A i \in Buckets : BucketSize(i) \in Nat \ {0} /\ Aligned(BucketSize(i))
  BY <1>1, AlignSizeFacts, AlignUpFacts DEF BucketSize
<1> QED
  BY <1>1, <1>2

LEMMA HeaderAtFacts ==
    ASSUME NEW n \in Nat
    PROVE  HeaderAt(n) \in Nat /\ n <= HeaderAt(n) /\ Aligned(HeaderAt(n) + HeaderSize)
<1>1. n + HeaderSize \in Nat /\ HeaderSize \in Nat
  BY Constants
<1>2. /\ AlignUp(n + HeaderSize) \in Nat /\ Aligned(AlignUp(n + HeaderSize))
      /\ n + HeaderSize <= AlignUp(n + HeaderSize)
  BY <1>1, AlignUpFacts
<1>3. HeaderAt(n) \in Nat /\ HeaderAt(n) + HeaderSize = AlignUp(n + HeaderSize)
  BY <1>1, <1>2 DEF HeaderAt
<1> QED
  BY <1>1, <1>2, <1>3

-----------------------------------------------------------------------------
(* Least numbers, sequences, loops *)

LEMMA LeastOf ==
    ASSUME NEW S, S \subseteq Nat, S # {}
    PROVE  Min(S) \in S /\ \A x \in S : Min(S) <= x
<1>1. PICK k \in S : \A i \in S : ~ (<<i, k>> \in OpToRel(<, Nat))
  BY NatLessThanWellFounded, WFMin, Zenon
<1>2. \A i \in S : ~ (i < k)
  BY <1>1 DEF OpToRel
<1>3. \A i \in S : k <= i
  BY <1>2
<1> QED
  BY <1>3 DEF Min

LEMMA Climb ==
    ASSUME NEW n \in Nat, NEW T, 0 \in T,
           \A k \in 0 .. n : k # n /\ k \in T => k + 1 \in T
    PROVE  0 .. n \subseteq T
<1> SUFFICES ASSUME ~ (0 .. n \subseteq T) PROVE FALSE
  OBVIOUS
<1> DEFINE U == { k \in Nat : k \in 0 .. n /\ k \notin T }
<1>1. U \subseteq Nat /\ U # {}
  OBVIOUS
<1>2. Min(U) \in U /\ \A i \in U : Min(U) <= i
  BY <1>1, LeastOf
<1>3. PICK k \in U : \A i \in U : k <= i
  BY <1>2
<1>4. k # 0 /\ k - 1 \in 0 .. n /\ k - 1 # n /\ k - 1 \notin U
  BY <1>3
<1> QED
  BY <1>4

LEMMA NextIndex ==
    ASSUME NEW n \in Nat, NEW k \in 0 .. n, k # n
    PROVE  /\ k \in Nat /\ k + 1 \in Nat /\ k + 1 # 0 /\ k + 1 - 1 = k
           /\ k + 1 \in 0 .. n /\ k + 1 \in 1 .. n /\ k + 1 \in k + 1 .. n
  OBVIOUS

LEMMA RemoveFacts ==
    ASSUME NEW s \in Seq(Nat), NEW k \in 1 .. Len(s)
    PROVE  /\ RemoveAt(s, k) \in Seq(Nat) /\ Len(RemoveAt(s, k)) = Len(s) - 1
           /\ \A j \in 1 .. Len(s) - 1 : RemoveAt(s, k)[j] = IF j < k THEN s[j] ELSE s[j + 1]
<1> DEFINE u == SubSeq(s, 1, k - 1)
           v == SubSeq(s, k + 1, Len(s))
<1>1. Len(s) \in Nat /\ \A i \in 1 .. Len(s) : s[i] \in Nat
  OBVIOUS
<1>2. /\ u \in Seq(Nat) /\ Len(u) = k - 1
      /\ \A i \in 1 .. k - 1 : u[i] = s[i]
  <2>1. \A i \in 1 .. k - 1 : s[i] \in Nat
    BY <1>1
  <2> QED
    BY <1>1, <2>1, SubSeqProperties
<1>3. /\ v \in Seq(Nat) /\ Len(v) = Len(s) - k
      /\ \A i \in 1 .. Len(s) - k : v[i] = s[k + i]
  <2>1. \A i \in k + 1 .. Len(s) : s[i] \in Nat
    BY <1>1
  <2> QED
    BY <1>1, <2>1, SubSeqProperties
<1>4. RemoveAt(s, k) = u \o v
  BY DEF RemoveAt
<1> HIDE DEF u, v
<1>5. /\ u \o v \in Seq(Nat) /\ Len(u \o v) = Len(s) - 1
      /\ \A i \in 1 .. Len(s) - 1 : (u \o v)[i] = IF i <= k - 1 THEN u[i] ELSE v[i - (k - 1)]
  <2>1. Len(u) + Len(v) = Len(s) - 1
    BY <1>1, <1>2, <1>3
  <2>2. /\ u \o v \in Seq(Nat) /\ Len(u \o v) = Len(u) + Len(v)
        /\ \A i \in 1 .. Len(u) + Len(v) :
              (u \o v)[i] = IF i <= Len(u) THEN u[i] ELSE v[i - Len(u)]
    BY <1>2, <1>3, ConcatProperties
  <2> QED
    BY <1>2, <2>1, <2>2
<1>6. ASSUME NEW j \in 1 .. Len(s) - 1
      PROVE  (u \o v)[j] = IF j < k THEN s[j] ELSE s[j + 1]
  <2>1. CASE j < k
    BY <1>1, <1>2, <1>5, <2>1
  <2>2. CASE ~ (j < k)
    <3>1. j - (k - 1) \in 1 .. Len(s) - k /\ k + (j - (k - 1)) = j + 1 /\ ~ (j <= k - 1)
      BY <1>1, <2>2
    <3> QED
      BY <1>3, <1>5, <2>2, <3>1
  <2> QED
    BY <2>1, <2>2
<1> QED
  BY <1>4, <1>5, <1>6

LEMMA ConsFacts ==
    ASSUME NEW s \in Seq(Nat), NEW e \in Nat
    PROVE  /\ <<e>> \o s \in Seq(Nat) /\ Len(<<e>> \o s) = Len(s) + 1
           /\ \A j \in 1 .. Len(s) + 1 : (<<e>> \o s)[j] = IF j = 1 THEN e ELSE s[j - 1]
<1>1. <<e>> \in Seq(Nat) /\ Len(<<e>>) = 1 /\ <<e>>[1] = e /\ Len(s) \in Nat
  OBVIOUS
<1>2. PICK o : o = <<e>>
  OBVIOUS
<1>3. /\ o \o s \in Seq(Nat) /\ Len(o \o s) = Len(s) + 1
      /\ \A i \in 1 .. Len(s) + 1 : (o \o s)[i] = IF i <= 1 THEN o[i] ELSE s[i - 1]
  BY <1>1, <1>2, ConcatProperties
<1> QED
  BY <1>1, <1>2, <1>3

(* A block linked at the front of a list *)
LEMMA ConsList ==
    ASSUME NEW list \in Seq(Nat), IsInjective(list), NEW a \in Nat, a \notin Range(list)
    PROVE  /\ <<a>> \o list \in Seq(Nat) /\ Len(<<a>> \o list) = Len(list) + 1
           /\ IsInjective(<<a>> \o list) /\ Range(<<a>> \o list) = Range(list) \cup {a}
<1> DEFINE new == <<a>> \o list
<1>1. Len(list) \in Nat /\ DOMAIN list = 1 .. Len(list)
  OBVIOUS
<1>2. /\ new \in Seq(Nat) /\ Len(new) = Len(list) + 1
      /\ \A j \in 1 .. Len(list) + 1 : new[j] = IF j = 1 THEN a ELSE list[j - 1]
  BY ConsFacts
<1> HIDE DEF new
<1>3. DOMAIN new = 1 .. Len(list) + 1
  BY <1>1, <1>2
<1>4. /\ \A j, m \in 1 .. Len(list) : list[j] = list[m] => j = m
      /\ \A j \in 1 .. Len(list) : list[j] # a
  BY <1>1 DEF IsInjective, Range
<1>5. \A x \in 1 .. Len(list) + 1 : x # 1 => x - 1 \in 1 .. Len(list) /\ new[x] = list[x - 1] /\ new[x] # a
  <2> SUFFICES ASSUME NEW x \in 1 .. Len(list) + 1, x # 1
               PROVE  x - 1 \in 1 .. Len(list) /\ new[x] = list[x - 1] /\ new[x] # a
    OBVIOUS
  <2>1. x - 1 \in 1 .. Len(list)
    BY <1>1
  <2> QED
    BY <1>2, <1>4, <2>1
<1>6. 1 \in 1 .. Len(list) + 1 /\ new[1] = a
  BY <1>1, <1>2
<1>7. IsInjective(new)
  <2> SUFFICES ASSUME NEW j \in 1 .. Len(list) + 1, NEW m \in 1 .. Len(list) + 1, new[j] = new[m]
               PROVE  j = m
    BY <1>3 DEF IsInjective
  <2>1. CASE j = 1 \/ m = 1
    BY <1>5, <1>6, <2>1
  <2>2. CASE j # 1 /\ m # 1
    <3>1. j - 1 = m - 1
      BY <1>4, <1>5, <2>2
    <3> QED
      BY <3>1
  <2> QED
    BY <2>1, <2>2
<1>8. Range(new) = Range(list) \cup {a}
  <2>1. ASSUME NEW x \in Range(new) PROVE x \in Range(list) \cup {a}
    <3>1. PICK j \in 1 .. Len(list) + 1 : x = new[j]
      BY <1>3, <2>1 DEF Range
    <3> QED
      BY <1>1, <1>5, <1>6, <3>1 DEF Range
  <2>2. ASSUME NEW x \in Range(list) PROVE x \in Range(new)
    <3>1. PICK j \in 1 .. Len(list) : x = list[j]
      BY <1>1, <2>2 DEF Range
    <3>2. j + 1 \in 1 .. Len(list) + 1 /\ j + 1 # 1 /\ j + 1 - 1 = j
      BY <1>1
    <3>3. new[j + 1] = x
      BY <1>5, <3>1, <3>2
    <3> QED
      BY <1>3, <3>2, <3>3 DEF Range
  <2>3. a \in Range(new)
    BY <1>3, <1>6 DEF Range
  <2> QED
    BY <2>1, <2>2, <2>3
<1> QED
  BY <1>2, <1>7, <1>8 DEF new

LEMMA InsertFacts ==
    ASSUME NEW s \in Seq(Nat), NEW k \in 1 .. Len(s) + 1, NEW e \in Nat
    PROVE  /\ InsertAt(s, k, e) \in Seq(Nat) /\ Len(InsertAt(s, k, e)) = Len(s) + 1
           /\ \A j \in 1 .. Len(s) + 1 :
                 InsertAt(s, k, e)[j] = IF j < k THEN s[j] ELSE IF j = k THEN e ELSE s[j - 1]
<1> DEFINE u == SubSeq(s, 1, k - 1)
           v == SubSeq(s, k, Len(s))
           w == u \o <<e>>
<1>1. Len(s) \in Nat /\ \A i \in 1 .. Len(s) : s[i] \in Nat
  OBVIOUS
<1>2. /\ u \in Seq(Nat) /\ Len(u) = k - 1
      /\ \A i \in 1 .. k - 1 : u[i] = s[i]
  <2>1. \A i \in 1 .. k - 1 : s[i] \in Nat
    BY <1>1
  <2> QED
    BY <1>1, <2>1, SubSeqProperties
<1>3. /\ v \in Seq(Nat) /\ Len(v) = Len(s) - k + 1
      /\ \A i \in 1 .. Len(s) - k + 1 : v[i] = s[k + i - 1]
  <2>1. \A i \in k .. Len(s) : s[i] \in Nat
    BY <1>1
  <2> QED
    BY <1>1, <2>1, SubSeqProperties
<1>4. InsertAt(s, k, e) = w \o v
  BY DEF InsertAt
<1> HIDE DEF u, v
<1>5. /\ w \in Seq(Nat) /\ Len(w) = k
      /\ \A i \in 1 .. k : w[i] = IF i <= k - 1 THEN u[i] ELSE e
  <2>1. <<e>> \in Seq(Nat) /\ Len(<<e>>) = 1 /\ <<e>>[1] = e
    OBVIOUS
  <2>2. PICK o : o = <<e>>
    OBVIOUS
  <2>3. /\ u \o o \in Seq(Nat) /\ Len(u \o o) = k
        /\ \A i \in 1 .. k : (u \o o)[i] = IF i <= k - 1 THEN u[i] ELSE o[i - (k - 1)]
    BY <1>2, <2>1, <2>2, ConcatProperties
  <2> QED
    BY <2>1, <2>2, <2>3
<1> HIDE DEF w
<1>6. /\ w \o v \in Seq(Nat) /\ Len(w \o v) = Len(s) + 1
      /\ \A i \in 1 .. Len(s) + 1 : (w \o v)[i] = IF i <= k THEN w[i] ELSE v[i - k]
  BY <1>1, <1>3, <1>5, ConcatProperties
<1>7. ASSUME NEW j \in 1 .. Len(s) + 1
      PROVE  (w \o v)[j] = IF j < k THEN s[j] ELSE IF j = k THEN e ELSE s[j - 1]
  <2>1. CASE j <= k
    <3>1. j \in 1 .. k /\ (j <= k - 1 <=> j < k) /\ (j < k => j \in 1 .. k - 1)
      BY <2>1
    <3>2. (w \o v)[j] = w[j]
      BY <1>6, <2>1
    <3>3. w[j] = IF j < k THEN s[j] ELSE e
      BY <1>2, <1>5, <3>1
    <3> QED
      BY <2>1, <3>2, <3>3
  <2>2. CASE ~ (j <= k)
    <3>1. j - k \in 1 .. Len(s) - k + 1 /\ k + (j - k) - 1 = j - 1 /\ ~ (j < k) /\ j # k
      BY <1>1, <2>2
    <3> QED
      BY <1>3, <1>6, <2>2, <3>1
  <2> QED
    BY <2>1, <2>2
<1> QED
  BY <1>4, <1>6, <1>7

-----------------------------------------------------------------------------
(* Blocks and the bytes they use *)

LEMMA BlockFacts ==
    ASSUME NEW H, NEW lo \in Nat, NEW hi \in Nat, BlocksOK(H, lo, hi), NEW a \in DOMAIN H
    PROVE  /\ a \in Nat /\ H[a].size \in Nat \ {0} /\ EndOf(H, a) \in Nat
           /\ EndOf(H, a) = a + HeaderSize + H[a].size
           /\ lo <= a /\ a < EndOf(H, a) /\ EndOf(H, a) <= hi
           /\ Payload(a, H[a].size) = a + HeaderSize .. EndOf(H, a) - 1
           /\ Payload(a, H[a].size) \subseteq lo .. hi - 1
           /\ HeaderBytes(a) \subseteq lo .. hi - 1
<1>1. /\ a \in Nat /\ H[a].size \in Nat \ {0} /\ lo <= a /\ EndOf(H, a) <= hi
      /\ HeaderSize \in Nat \ {0}
  BY Constants DEF BlocksOK, IsBlock
<1> QED
  BY <1>1 DEF EndOf, Payload, HeaderBytes

(* Two blocks share no byte *)
LEMMA BlocksApart ==
    ASSUME NEW H, NEW lo \in Nat, NEW hi \in Nat, BlocksOK(H, lo, hi),
           NEW a \in DOMAIN H, NEW b \in DOMAIN H, a # b
    PROVE  /\ Payload(a, H[a].size) \cap Payload(b, H[b].size) = {}
           /\ Payload(a, H[a].size) \cap HeaderBytes(b) = {}
           /\ EndOf(H, a) <= b \/ EndOf(H, b) <= a
<1>1. /\ a \in Nat /\ EndOf(H, a) \in Nat /\ a < EndOf(H, a)
      /\ b \in Nat /\ EndOf(H, b) \in Nat /\ b < EndOf(H, b)
      /\ Payload(a, H[a].size) = a + HeaderSize .. EndOf(H, a) - 1
      /\ Payload(b, H[b].size) = b + HeaderSize .. EndOf(H, b) - 1
      /\ EndOf(H, b) = b + HeaderSize + H[b].size /\ H[b].size \in Nat
  BY BlockFacts
<1>2. EndOf(H, a) <= b \/ EndOf(H, b) <= a
  <2>1. a < b \/ b < a
    BY <1>1
  <2> QED
    BY <2>1 DEF BlocksOK
<1>3. HeaderSize \in Nat
  BY Constants
<1>4. ASSUME NEW x \in Payload(a, H[a].size) PROVE x \notin Payload(b, H[b].size) /\ x \notin HeaderBytes(b)
  <2>1. x \in Int /\ a + HeaderSize <= x /\ x < EndOf(H, a)
    BY <1>1, <1>3, <1>4
  <2>2. x < b \/ EndOf(H, b) <= x
    BY <1>1, <1>2, <1>3, <2>1
  <2>3. x \notin Payload(b, H[b].size)
    BY <1>1, <1>3, <2>1, <2>2
  <2>4. x \notin HeaderBytes(b)
    BY <1>1, <1>3, <2>1, <2>2 DEF HeaderBytes
  <2> QED
    BY <2>3, <2>4
<1> QED
  BY <1>2, <1>4

LEMMA UsedFinite ==
    ASSUME NEW H, NEW lo \in Nat, NEW hi \in Nat, BlocksOK(H, lo, hi), NEW S, S \subseteq DOMAIN H
    PROVE  /\ IsFiniteSet(Used(H, S)) /\ Cardinality(Used(H, S)) \in Nat
           /\ Cardinality(Used(H, S)) <= hi
<1>1. Used(H, S) \subseteq 0 .. hi - 1
  <2> SUFFICES ASSUME NEW a \in S, NEW b \in Payload(a, H[a].size) PROVE b \in 0 .. hi - 1
    BY DEF Used
  <2>1. Payload(a, H[a].size) \subseteq lo .. hi - 1
    BY BlockFacts
  <2> QED
    BY <2>1
<1>2. IsFiniteSet(0 .. hi - 1) /\ Cardinality(0 .. hi - 1) = hi
  <2>1. /\ IsFiniteSet(0 .. hi - 1)
        /\ Cardinality(0 .. hi - 1) = IF 0 > hi - 1 THEN 0 ELSE hi - 1 - 0 + 1
    <3>1. 0 \in Int /\ hi - 1 \in Int
      OBVIOUS
    <3> QED
      BY <3>1, FS_Interval, Zenon
  <2> QED
    BY <2>1
<1>3. IsFiniteSet(Used(H, S)) /\ Cardinality(Used(H, S)) <= Cardinality(0 .. hi - 1)
  BY <1>1, <1>2, FS_Subset
<1> QED
  BY <1>2, <1>3, FS_CardinalityType

LEMMA UsedNext ==
    ASSUME NEW H, NEW lo \in Nat, NEW hi \in Nat, BlocksOK(H, lo, hi), NEW S, S \subseteq DOMAIN H,
           NEW a \in DOMAIN H, a \notin S
    PROVE  Cardinality(Used(H, S \cup {a})) = Cardinality(Used(H, S)) + H[a].size
<1> DEFINE P == Payload(a, H[a].size)
<1>1. Used(H, S \cup {a}) = Used(H, S) \cup P
  BY DEF Used
<1>2. Used(H, S) \cap P = {}
  <2> SUFFICES ASSUME NEW c \in S, NEW b \in Payload(c, H[c].size), b \in P PROVE FALSE
    BY DEF Used
  <2>1. P \cap Payload(c, H[c].size) = {}
    BY BlocksApart
  <2> QED
    BY <2>1
<1>3. IsFiniteSet(P) /\ Cardinality(P) = H[a].size
  <2>1. /\ a + HeaderSize \in Int /\ EndOf(H, a) - 1 \in Int /\ P = a + HeaderSize .. EndOf(H, a) - 1
        /\ EndOf(H, a) - 1 - (a + HeaderSize) + 1 = H[a].size /\ H[a].size \in Nat \ {0}
    BY BlockFacts, Constants
  <2> HIDE DEF P
  <2>2. /\ IsFiniteSet(P)
        /\ Cardinality(P) = IF a + HeaderSize > EndOf(H, a) - 1 THEN 0
                            ELSE EndOf(H, a) - 1 - (a + HeaderSize) + 1
    BY <2>1, FS_Interval
  <2> QED
    BY <2>1, <2>2
<1>4. IsFiniteSet(Used(H, S)) /\ Cardinality(Used(H, S)) \in Nat
  BY UsedFinite
<1> HIDE DEF P
<1>5. Cardinality(Used(H, S) \cup P) =
          Cardinality(Used(H, S)) + Cardinality(P) - Cardinality(Used(H, S) \cap P)
  BY <1>3, <1>4, FS_Union
<1>6. Cardinality(Used(H, S) \cap P) = 0 /\ H[a].size \in Nat
  BY <1>2, FS_EmptySet, BlockFacts
<1>7. Cardinality(Used(H, S) \cup P) = Cardinality(Used(H, S)) + H[a].size
  BY <1>3, <1>4, <1>5, <1>6
<1> QED
  BY <1>1, <1>7, Zenon

LEMMA UsedSame ==
    ASSUME NEW H, NEW G, NEW S, \A a \in S : H[a].size = G[a].size
    PROVE  Used(H, S) = Used(G, S)
  BY DEF Used

-----------------------------------------------------------------------------
(* Steps on headers that move no block *)

SameLayout(H, G) ==
    /\ DOMAIN G = DOMAIN H
    /\ \A a \in DOMAIN H : /\ DOMAIN G[a] = BlockFields /\ G[a].allocated \in BOOLEAN
                           /\ G[a].size = H[a].size /\ G[a].bucket = H[a].bucket

LEMMA LayoutKept ==
    ASSUME NEW H, NEW G, NEW lo \in Nat, NEW hi \in Nat, SameLayout(H, G),
           BlocksOK(H, lo, hi), Tiled(H, hi), KindsOK(H)
    PROVE  /\ BlocksOK(G, lo, hi) /\ Tiled(G, hi) /\ KindsOK(G)
           /\ \A a \in DOMAIN H : EndOf(G, a) = EndOf(H, a)
<1>1. \A a \in DOMAIN H : EndOf(G, a) = EndOf(H, a)
  BY DEF SameLayout, EndOf
<1>2. \A a \in DOMAIN H : IsBlock(G[a])
  BY DEF SameLayout, BlocksOK, IsBlock
<1>3. BlocksOK(G, lo, hi)
  BY <1>1, <1>2 DEF SameLayout, BlocksOK
<1>4. Tiled(G, hi) /\ KindsOK(G)
  BY <1>1 DEF SameLayout, Tiled, KindsOK
<1> QED
  BY <1>1, <1>3, <1>4

LEMMA OrderKept ==
    ASSUME NEW H, NEW G, NEW f, Range(f) \subseteq DOMAIN H, DOMAIN f = 1 .. Len(f),
           \A a \in DOMAIN H : EndOf(G, a) = EndOf(H, a), Ordered(H, f)
    PROVE  Ordered(G, f)
<1>1. \A k \in 1 .. Len(f) : f[k] \in DOMAIN H
  BY DEF Range
<1> QED
  BY <1>1 DEF Ordered

(* A block in hand is marked as allocated *)
LEMMA TookShape ==
    ASSUME NEW q, NEW a, ShapeOK(q, {a}), a \in DOMAIN q.headers, ~ q.headers[a].allocated,
           NEW t, t = Took(q, a).pool
    PROVE  /\ ShapeOK(t, {}) /\ SameLayout(q.headers, t.headers) /\ t.headers[a].allocated
           /\ \A c \in DOMAIN q.headers \ {a} : t.headers[c] = q.headers[c]
           /\ t.bytes = q.bytes /\ t.end = q.end
           /\ t.total_used = q.total_used + q.headers[a].size /\ t.fallback_used = q.fallback_used
<1> DEFINE H == q.headers
           G == t.headers
<1>1. /\ DOMAIN t = PoolFields /\ t.initialized = q.initialized /\ t.start = q.start /\ t.end = q.end
      /\ t.bytes = q.bytes /\ t.free_list = q.free_list /\ t.bucket_free_list = q.bucket_free_list
      /\ t.bucket_free = q.bucket_free /\ t.fallback_used = q.fallback_used
      /\ t.total_used = q.total_used + H[a].size
      /\ G = [H EXCEPT ![a] = [H[a] EXCEPT !.allocated = TRUE]]
  BY DEF Took, ShapeOK, PoolFields
<1>2. /\ q.start \in Nat /\ q.end \in Nat /\ q.end <= SizeMax /\ q.initialized = TRUE
      /\ BlocksOK(H, q.start, q.end) /\ Tiled(H, q.end) /\ KindsOK(H)
      /\ ListOK(H, q.free_list, {a}) /\ BucketsOK(H, q.bucket_free_list, q.bucket_free, {a})
      /\ BytesOK(q.bytes, q.start, q.end) /\ Clean(H, q.bytes)
  BY DEF ShapeOK
<1>3. DOMAIN H[a] = BlockFields /\ \A c \in DOMAIN H : DOMAIN H[c] = BlockFields /\ H[c].allocated \in BOOLEAN
  BY <1>2 DEF BlocksOK, IsBlock
<1> HIDE DEF H, G
<1>4. /\ DOMAIN G = DOMAIN H /\ DOMAIN G[a] = BlockFields
      /\ G[a].allocated = TRUE /\ G[a].size = H[a].size /\ G[a].bucket = H[a].bucket
      /\ \A c \in DOMAIN H \ {a} : G[c] = H[c]
  BY <1>1, <1>3 DEF BlockFields, H
<1>5. SameLayout(H, G)
  BY <1>3, <1>4 DEF SameLayout
<1>6. /\ BlocksOK(G, q.start, q.end) /\ Tiled(G, q.end) /\ KindsOK(G)
      /\ \A c \in DOMAIN H : EndOf(G, c) = EndOf(H, c)
  BY <1>2, <1>5, LayoutKept
<1>7. \A i : FreeIn(G, i) = FreeIn(H, i) \ {a}
  BY <1>4 DEF FreeIn
<1>8. ListOK(G, q.free_list, {})
  <2>1. Range(q.free_list) \subseteq DOMAIN H /\ DOMAIN q.free_list = 1 .. Len(q.free_list)
    BY <1>2 DEF ListOK, FreeIn
  <2>2. Ordered(G, q.free_list)
    BY <1>2, <1>6, <2>1, OrderKept DEF ListOK
  <2> QED
    BY <1>2, <1>7, <2>2 DEF ListOK
<1>9. BucketsOK(G, q.bucket_free_list, q.bucket_free, {})
  BY <1>2, <1>7 DEF BucketsOK, BucketOK
<1>10. Clean(G, q.bytes)
  BY <1>2, <1>4 DEF Clean
<1>11. ShapeOK(t, {})
  BY <1>1, <1>2, <1>6, <1>8, <1>9, <1>10 DEF ShapeOK, G
<1> QED
  BY <1>1, <1>4, <1>5, <1>11 DEF H, G

(* G has one allocated block more than H *)
OneMore(H, G, a) ==
    /\ a \in DOMAIN G /\ AllocatedIn(H) \subseteq DOMAIN G /\ a \notin AllocatedIn(H)
    /\ AllocatedIn(G) = AllocatedIn(H) \cup {a} /\ \A c \in AllocatedIn(H) : G[c] = H[c]

LEMMA UsedWith ==
    ASSUME NEW H, NEW G, NEW a, NEW lo \in Nat, NEW hi \in Nat, BlocksOK(G, lo, hi),
           OneMore(H, G, a)
    PROVE  /\ Cardinality(Used(G, AllocatedIn(G))) =
                  Cardinality(Used(H, AllocatedIn(H))) + G[a].size
           /\ Cardinality(Used(G, ListAllocated(G))) =
                  Cardinality(Used(H, ListAllocated(H))) + (IF G[a].bucket = 0 THEN G[a].size ELSE 0)
           /\ Cardinality(Used(H, AllocatedIn(H))) \in Nat
           /\ Cardinality(Used(H, ListAllocated(H))) \in Nat
<1> USE DEF OneMore
<1>1. /\ Used(G, AllocatedIn(H)) = Used(H, AllocatedIn(H))
      /\ Used(G, ListAllocated(H)) = Used(H, ListAllocated(H))
  BY UsedSame DEF ListAllocated
<1>2. ListAllocated(G) = IF G[a].bucket = 0 THEN ListAllocated(H) \cup {a} ELSE ListAllocated(H)
  BY DEF ListAllocated
<1>3. ListAllocated(H) \subseteq DOMAIN G /\ a \notin ListAllocated(H)
  BY DEF ListAllocated
<1>4. /\ Cardinality(Used(G, AllocatedIn(H) \cup {a})) = Cardinality(Used(G, AllocatedIn(H))) + G[a].size
      /\ Cardinality(Used(G, ListAllocated(H) \cup {a})) = Cardinality(Used(G, ListAllocated(H))) + G[a].size
  BY <1>3, UsedNext
<1>5. /\ Cardinality(Used(G, AllocatedIn(H))) \in Nat
      /\ Cardinality(Used(G, ListAllocated(H))) \in Nat
  BY <1>3, UsedFinite
<1>6. Cardinality(Used(G, AllocatedIn(G))) = Cardinality(Used(H, AllocatedIn(H))) + G[a].size
  BY <1>1, <1>4
<1>7. CASE G[a].bucket = 0
  <2>1. ListAllocated(G) = ListAllocated(H) \cup {a}
    BY <1>2, <1>7
  <2>2. Cardinality(Used(G, ListAllocated(G))) = Cardinality(Used(H, ListAllocated(H))) + G[a].size
    BY <1>1, <1>4, <2>1
  <2> QED
    BY <1>1, <1>5, <1>6, <1>7, <2>2
<1>8. CASE G[a].bucket # 0
  <2>1. ListAllocated(G) = ListAllocated(H)
    BY <1>2, <1>8
  <2>2. Cardinality(Used(G, ListAllocated(G))) = Cardinality(Used(H, ListAllocated(H))) + 0
    BY <1>1, <1>5, <2>1
  <2> QED
    BY <1>1, <1>5, <1>6, <1>8, <2>2
<1> QED
  BY <1>7, <1>8

-----------------------------------------------------------------------------
(* Allocation *)

(* q leaves the blocks S of p, and what is in them, alone *)
Untouched(p, q, S) ==
    \A a \in S : /\ a \in DOMAIN q.headers /\ q.headers[a] = p.headers[a]
                 /\ \A b \in Payload(a, p.headers[a].size) : q.bytes[b] = p.bytes[b]

(* A block that was free is allocated, and large enough *)
Allocation(p, q, a, aligned) ==
    /\ PoolOK(q) /\ q.end = p.end
    /\ a \in DOMAIN q.headers /\ a \notin AllocatedIn(p.headers)
    /\ AllocatedIn(q.headers) = AllocatedIn(p.headers) \cup {a}
    /\ q.headers[a].size >= aligned
    /\ Untouched(p, q, AllocatedIn(p.headers))

(* From the block in hand to the allocation *)
LEMMA TakesBlock ==
    ASSUME NEW p, PoolOK(p), NEW q, NEW a, ShapeOK(q, {a}), NEW aligned \in Nat,
           q.end = p.end, a \in DOMAIN q.headers, ~ q.headers[a].allocated,
           q.headers[a].size >= aligned,
           AllocatedIn(q.headers) = AllocatedIn(p.headers), a \notin AllocatedIn(p.headers),
           Untouched(p, q, AllocatedIn(p.headers)),
           q.total_used = p.total_used,
           q.fallback_used = p.fallback_used + (IF q.headers[a].bucket = 0 THEN q.headers[a].size ELSE 0)
    PROVE  Allocation(p, Took(q, a).pool, a, aligned)
<1> DEFINE t == Took(q, a).pool
<1>1. /\ ShapeOK(t, {}) /\ SameLayout(q.headers, t.headers) /\ t.headers[a].allocated
      /\ \A c \in DOMAIN q.headers \ {a} : t.headers[c] = q.headers[c]
      /\ t.bytes = q.bytes /\ t.end = q.end
      /\ t.total_used = q.total_used + q.headers[a].size /\ t.fallback_used = q.fallback_used
  BY TookShape
<1> HIDE DEF t
<1>2. /\ DOMAIN t.headers = DOMAIN q.headers /\ t.headers[a].size = q.headers[a].size
      /\ t.headers[a].bucket = q.headers[a].bucket
  BY <1>1 DEF SameLayout
<1>3. AllocatedIn(t.headers) = AllocatedIn(p.headers) \cup {a}
  BY <1>1, <1>2 DEF AllocatedIn
<1>4. Untouched(p, t, AllocatedIn(p.headers))
  BY <1>1, <1>2 DEF Untouched
<1>5. \A c \in AllocatedIn(p.headers) : c \in DOMAIN t.headers /\ t.headers[c] = p.headers[c]
  BY <1>4 DEF Untouched
<1>6. BlocksOK(t.headers, t.start, t.end) /\ t.start \in Nat /\ t.end \in Nat
  BY <1>1 DEF ShapeOK
<1>7. /\ Cardinality(Used(t.headers, AllocatedIn(t.headers))) =
            Cardinality(Used(p.headers, AllocatedIn(p.headers))) + t.headers[a].size
      /\ Cardinality(Used(t.headers, ListAllocated(t.headers))) =
            Cardinality(Used(p.headers, ListAllocated(p.headers)))
              + (IF t.headers[a].bucket = 0 THEN t.headers[a].size ELSE 0)
  <2>1. /\ AllocatedIn(p.headers) \subseteq DOMAIN t.headers /\ a \in DOMAIN t.headers
        /\ \A c \in AllocatedIn(p.headers) : t.headers[c] = p.headers[c]
    BY <1>2, <1>5
  <2>2. OneMore(p.headers, t.headers, a)
    BY <1>3, <2>1 DEF OneMore
  <2> QED
    BY <1>6, <2>2, UsedWith
<1>8. CountersOK(t)
  BY <1>1, <1>2, <1>7 DEF PoolOK, CountersOK
<1>9. PoolOK(t) /\ t.end = p.end /\ a \in DOMAIN t.headers /\ t.headers[a].size >= aligned
  BY <1>1, <1>2, <1>8 DEF PoolOK
<1>10. Allocation(p, t, a, aligned)
  BY <1>3, <1>4, <1>9 DEF Allocation
<1> QED
  BY <1>10 DEF t

LEMMA ShapeParts ==
    ASSUME NEW p, NEW X, ShapeOK(p, X)
    PROVE  /\ DOMAIN p = PoolFields /\ p.initialized = TRUE
           /\ p.start \in Nat /\ p.end \in Nat /\ p.end <= SizeMax
           /\ BlocksOK(p.headers, p.start, p.end) /\ Tiled(p.headers, p.end) /\ KindsOK(p.headers)
           /\ ListOK(p.headers, p.free_list, X)
           /\ BucketsOK(p.headers, p.bucket_free_list, p.bucket_free, X)
           /\ BytesOK(p.bytes, p.start, p.end) /\ Clean(p.headers, p.bytes)
  BY DEF ShapeOK

(* noxtls_mem_alloc_bucket *)
LEMMA AllocBucketOK ==
    ASSUME NEW p, PoolOK(p), NEW aligned \in Nat, mode # "legacy"
    PROVE  LET r == AllocBucket(p, aligned)
           IN  IF r.found THEN Allocation(p, r.pool, r.header, aligned)
               ELSE \A i \in Buckets : BucketSize(i) >= aligned => p.bucket_free_list[i] = << >>
<1> DEFINE r == AllocBucket(p, aligned)
           H == p.headers
           fits == { i \in Buckets : BucketSize(i) >= aligned /\ p.bucket_free_list[i] # << >> }
<1>1. CASE fits = {}
  <2>1. r = None(p)
    BY <1>1 DEF AllocBucket
  <2>2. ~ r.found
    BY <2>1 DEF None
  <2> QED
    BY <1>1, <2>2
<1>2. CASE fits # {}
  <2> DEFINE i == Min(fits)
             list == p.bucket_free_list[i]
             a == Head(list)
             q == [p EXCEPT !.bucket_free_list[i] = Tail(@), !.bucket_free[i] = @ - 1]
  <2>1. r = Took(q, a)
    BY <1>2 DEF AllocBucket
  <2>2. i \in fits
    <3>1. fits \subseteq Nat
      BY BucketFacts
    <3> QED
      BY <1>2, <3>1, LeastOf
  <2>3. ShapeOK(p, {}) /\ CountersOK(p)
    BY DEF PoolOK
  <2>4. i \in Buckets /\ i \in UsedBuckets /\ i # 0 /\ BucketSize(i) >= aligned /\ list # << >>
    BY <2>2, BucketFacts DEF UsedBuckets
  <2> HIDE DEF i
  <2>5. BucketOK(H, i, list, p.bucket_free[i], {}) /\ i \in DOMAIN p.bucket_free_list /\ i \in DOMAIN p.bucket_free
    BY <2>3, <2>4, ShapeParts DEF BucketsOK
  <2>6. /\ list \in Seq(Nat) /\ Len(list) \in Nat \ {0} /\ a = list[1] /\ DOMAIN list = 1 .. Len(list)
        /\ Tail(list) \in Seq(Nat) /\ Len(Tail(list)) = Len(list) - 1
        /\ \A k \in 1 .. Len(list) - 1 : Tail(list)[k] = list[k + 1]
    BY <2>4, <2>5 DEF BucketOK
  <2>7. a \in FreeIn(H, i)
    BY <2>5, <2>6 DEF BucketOK, Range
  <2>8. /\ DOMAIN q = PoolFields /\ q.initialized = p.initialized /\ q.start = p.start /\ q.end = p.end
        /\ q.headers = H /\ q.bytes = p.bytes /\ q.free_list = p.free_list
        /\ q.bucket_free_list = [p.bucket_free_list EXCEPT ![i] = Tail(list)]
        /\ q.bucket_free = [p.bucket_free EXCEPT ![i] = p.bucket_free[i] - 1]
        /\ q.total_used = p.total_used /\ q.fallback_used = p.fallback_used
    BY <2>3, ShapeParts DEF PoolFields
  <2> HIDE DEF q, list, a
  <2>9. IsInjective(Tail(list)) /\ Range(Tail(list)) = FreeIn(H, i) \ {a}
    <3>1. \A k, m \in 1 .. Len(list) : list[k] = list[m] => k = m
      BY <2>5, <2>6 DEF BucketOK, IsInjective
    <3>2. DOMAIN Tail(list) = 1 .. Len(list) - 1
      BY <2>6
    <3>3. IsInjective(Tail(list))
      BY <2>6, <3>1, <3>2 DEF IsInjective
    <3>4. FreeIn(H, i) = { list[k] : k \in 1 .. Len(list) }
      BY <2>5, <2>6 DEF BucketOK, Range
    <3>5. ASSUME NEW x \in Range(Tail(list)) PROVE x \in FreeIn(H, i) \ {a}
      <4>1. PICK k \in 1 .. Len(list) - 1 : x = Tail(list)[k]
        BY <3>2, <3>5 DEF Range
      <4>2. x = list[k + 1] /\ k + 1 \in 1 .. Len(list) /\ 1 \in 1 .. Len(list) /\ k + 1 # 1
        BY <2>6, <4>1
      <4> QED
        BY <2>6, <3>1, <3>4, <4>2
    <3>6. ASSUME NEW x \in FreeIn(H, i), x # a PROVE x \in Range(Tail(list))
      <4>1. PICK k \in 1 .. Len(list) : x = list[k]
        BY <3>4, <3>6
      <4>2. k - 1 \in 1 .. Len(list) - 1 /\ k - 1 + 1 = k
        BY <2>6, <3>6, <4>1
      <4>3. x = Tail(list)[k - 1]
        BY <2>6, <4>1, <4>2
      <4> QED
        BY <3>2, <4>2, <4>3 DEF Range
    <3> QED
      BY <3>3, <3>5, <3>6
  <2>10. BucketsOK(H, q.bucket_free_list, q.bucket_free, {a})
    <3>1. DOMAIN q.bucket_free_list = UsedBuckets /\ DOMAIN q.bucket_free = UsedBuckets
      BY <2>3, <2>8, ShapeParts DEF BucketsOK
    <3>2. BucketOK(H, i, q.bucket_free_list[i], q.bucket_free[i], {a})
      <4>1. q.bucket_free_list[i] = Tail(list) /\ q.bucket_free[i] = Len(Tail(list))
        BY <2>5, <2>6, <2>8 DEF BucketOK
      <4> QED
        BY <2>6, <2>9, <4>1 DEF BucketOK
    <3>3. ASSUME NEW j \in UsedBuckets, j # i
          PROVE  BucketOK(H, j, q.bucket_free_list[j], q.bucket_free[j], {a})
      <4>1. q.bucket_free_list[j] = p.bucket_free_list[j] /\ q.bucket_free[j] = p.bucket_free[j]
        BY <2>8, <3>1, <3>3
      <4>2. BucketOK(H, j, p.bucket_free_list[j], p.bucket_free[j], {})
        BY <2>3, <3>3, ShapeParts DEF BucketsOK
      <4>3. FreeIn(H, j) \ {a} = FreeIn(H, j)
        BY <2>7, <3>3 DEF FreeIn
      <4> QED
        BY <4>1, <4>2, <4>3 DEF BucketOK
    <3> QED
      BY <3>1, <3>2, <3>3 DEF BucketsOK
  <2>11. ListOK(H, p.free_list, {a})
    <3>1. FreeIn(H, 0) \ {a} = FreeIn(H, 0)
      BY <2>4, <2>7 DEF FreeIn
    <3>2. ListOK(H, p.free_list, {})
      BY <2>3, ShapeParts
    <3> QED
      BY <3>1, <3>2 DEF ListOK
  <2>12. ShapeOK(q, {a})
    BY <2>3, <2>8, <2>10, <2>11, ShapeParts DEF ShapeOK
  <2>13. /\ a \in DOMAIN H /\ ~ H[a].allocated /\ H[a].bucket = i /\ a \notin AllocatedIn(H)
         /\ H[a].size = BucketSize(i)
    <3>1. BlocksOK(H, p.start, p.end)
      BY <2>3, ShapeParts
    <3>2. a \in DOMAIN H /\ ~ H[a].allocated /\ H[a].bucket = i
      BY <2>7 DEF FreeIn
    <3>3. IsBlock(H[a])
      BY <3>1, <3>2 DEF BlocksOK
    <3> QED
      BY <2>4, <3>2, <3>3 DEF IsBlock, AllocatedIn
  <2>14. Untouched(p, q, AllocatedIn(p.headers))
    BY <2>8 DEF Untouched, AllocatedIn
  <2>15. p.fallback_used = p.fallback_used + 0
    <3>1. ListAllocated(H) \subseteq DOMAIN H
      BY DEF ListAllocated, AllocatedIn
    <3>2. p.fallback_used \in Nat
      BY <2>3, <3>1, ShapeParts, UsedFinite DEF CountersOK
    <3> QED
      BY <3>2
  <2>16. Allocation(p, Took(q, a).pool, a, aligned)
    <3>1. q.fallback_used = p.fallback_used + (IF q.headers[a].bucket = 0 THEN q.headers[a].size ELSE 0)
      BY <2>4, <2>8, <2>13, <2>15
    <3> QED
      BY <2>4, <2>8, <2>12, <2>13, <2>14, <3>1, TakesBlock
  <2>17. r.found = TRUE /\ r.header = a /\ r.pool = Took(q, a).pool
    BY <2>1 DEF Took, q, a, list
  <2> QED
    BY <2>16, <2>17
<1> QED
  BY <1>1, <1>2

LEMMA ListFacts ==
    ASSUME NEW H, NEW lo \in Nat, NEW hi \in Nat, BlocksOK(H, lo, hi), NEW f, NEW X, ListOK(H, f, X)
    PROVE  /\ f \in Seq(Nat) /\ Len(f) \in Nat /\ DOMAIN f = 1 .. Len(f)
           /\ \A k \in 1 .. Len(f) :
                 f[k] \in DOMAIN H /\ f[k] \notin X /\ ~ H[f[k]].allocated /\ H[f[k]].bucket = 0
           /\ \A k, m \in 1 .. Len(f) : k < m => EndOf(H, f[k]) < f[m] /\ f[k] < f[m]
           /\ \A k, m \in 1 .. Len(f) : f[k] = f[m] => k = m
<1>1. f \in Seq(Nat) /\ Len(f) \in Nat /\ DOMAIN f = 1 .. Len(f)
  BY DEF ListOK
<1>2. \A k \in 1 .. Len(f) : f[k] \in FreeIn(H, 0) \ X
  BY <1>1 DEF ListOK, Range
<1>3. \A k \in 1 .. Len(f) :
          f[k] \in DOMAIN H /\ f[k] \notin X /\ ~ H[f[k]].allocated /\ H[f[k]].bucket = 0
  BY <1>2 DEF FreeIn
<1>4. ASSUME NEW k \in 1 .. Len(f), NEW m \in 1 .. Len(f), k < m
      PROVE  EndOf(H, f[k]) < f[m] /\ f[k] < f[m]
  <2>1. EndOf(H, f[k]) < f[m]
    BY <1>4 DEF ListOK, Ordered
  <2>2. /\ f[k] \in Nat /\ EndOf(H, f[k]) \in Nat /\ f[k] < EndOf(H, f[k]) /\ f[m] \in Nat
    BY <1>3, BlockFacts
  <2> QED
    BY <2>1, <2>2
<1>5. ASSUME NEW k \in 1 .. Len(f), NEW m \in 1 .. Len(f), f[k] = f[m] PROVE k = m
  <2>1. f[k] \in Nat /\ ~ (f[k] < f[m])
    BY <1>1, <1>5
  <2> QED
    BY <1>1, <1>4, <1>5, <2>1
<1> QED
  BY <1>1, <1>3, <1>4, <1>5

LEMMA ListWithout ==
    ASSUME NEW H, NEW lo \in Nat, NEW hi \in Nat, BlocksOK(H, lo, hi), NEW f, ListOK(H, f, {}),
           NEW k \in 1 .. Len(f)
    PROVE  ListOK(H, RemoveAt(f, k), {f[k]})
<1> DEFINE g == RemoveAt(f, k)
<1>1. /\ f \in Seq(Nat) /\ Len(f) \in Nat /\ DOMAIN f = 1 .. Len(f)
      /\ \A j, m \in 1 .. Len(f) : j < m => EndOf(H, f[j]) < f[m] /\ f[j] < f[m]
      /\ \A j, m \in 1 .. Len(f) : f[j] = f[m] => j = m
  BY ListFacts
<1>2. /\ g \in Seq(Nat) /\ Len(g) = Len(f) - 1
      /\ \A j \in 1 .. Len(f) - 1 : g[j] = IF j < k THEN f[j] ELSE f[j + 1]
  BY <1>1, RemoveFacts
<1> HIDE DEF g
<1>3. Ordered(H, g)
  <2> SUFFICES ASSUME NEW j \in 1 .. Len(g), NEW m \in 1 .. Len(g), j < m
               PROVE  EndOf(H, g[j]) < g[m]
    BY DEF Ordered
  <2>1. j \in 1 .. Len(f) - 1 /\ m \in 1 .. Len(f) - 1 /\ Len(f) \in Nat
    BY <1>1, <1>2
  <2>2. PICK x \in 1 .. Len(f) : x = IF j < k THEN j ELSE j + 1
    BY <2>1
  <2>3. PICK y \in 1 .. Len(f) : y = IF m < k THEN m ELSE m + 1
    BY <2>1
  <2>4. g[j] = f[x] /\ g[m] = f[y]
    BY <1>2, <2>1, <2>2, <2>3
  <2>5. x < y
    BY <2>1, <2>2, <2>3
  <2> QED
    BY <1>1, <2>4, <2>5
<1>4. Range(f) = FreeIn(H, 0)
  BY DEF ListOK
<1>5. ASSUME NEW x \in Range(g) PROVE x \in Range(f) \ {f[k]}
  <2>1. PICK j \in 1 .. Len(f) - 1 : x = g[j]
    BY <1>2, <1>5 DEF Range
  <2>2. PICK y \in 1 .. Len(f) : y = (IF j < k THEN j ELSE j + 1) /\ y # k
    BY <1>1
  <2>3. x = f[y]
    BY <1>2, <2>1, <2>2
  <2> QED
    BY <1>1, <2>2, <2>3 DEF Range
<1>6. ASSUME NEW x \in Range(f), x # f[k] PROVE x \in Range(g)
  <2>1. PICK y \in 1 .. Len(f) : x = f[y] /\ y # k
    BY <1>1, <1>6 DEF Range
  <2>2. PICK j \in 1 .. Len(f) - 1 : j = IF y < k THEN y ELSE y - 1
    BY <1>1, <2>1
  <2>3. (j < k => j = y) /\ (~ (j < k) => j + 1 = y)
    BY <1>1, <2>1, <2>2
  <2>4. g[j] = x /\ DOMAIN g = 1 .. Len(f) - 1
    BY <1>2, <2>1, <2>3
  <2> QED
    BY <2>4 DEF Range
<1>7. Range(g) = FreeIn(H, 0) \ {f[k]}
  BY <1>4, <1>5, <1>6
<1>8. ListOK(H, g, {f[k]})
  BY <1>2, <1>3, <1>7 DEF ListOK
<1> QED
  BY <1>8 DEF g

(* Taking a block of the list in hand does not concern the buckets *)
LEMMA BucketsWithout ==
    ASSUME NEW H, NEW G, NEW lists, NEW counts, BucketsOK(H, lists, counts, {}), NEW X,
           \A i \in Buckets : FreeIn(G, i) \ X = FreeIn(H, i)
    PROVE  BucketsOK(G, lists, counts, X)
<1>1. \A i \in UsedBuckets : FreeIn(G, i) \ X = FreeIn(H, i) \ {}
  BY DEF UsedBuckets
<1> QED
  BY <1>1 DEF BucketsOK, BucketOK

(* The headers after a split: a keeps its front, rest is a new block. *)
Cut(H, a, aligned, rest, G) ==
    /\ a \in DOMAIN H /\ ~ H[a].allocated /\ H[a].bucket = 0
    /\ aligned \in Nat \ {0} /\ Aligned(aligned)
    /\ H[a].size >= aligned + 2 * HeaderSize + Alignment
    /\ rest = a + HeaderSize + aligned
    /\ G = Put([H EXCEPT ![a].size = aligned], rest,
               [size |-> H[a].size - aligned - HeaderSize, allocated |-> FALSE, bucket |-> 0])

InTwo(H, a, aligned, rest, G) ==
    /\ rest \notin DOMAIN H /\ DOMAIN G = DOMAIN H \cup {rest}
    /\ \A c \in DOMAIN H \ {a} : G[c] = H[c] /\ EndOf(G, c) = EndOf(H, c)
    /\ G[a].size = aligned /\ ~ G[a].allocated /\ G[a].bucket = 0
    /\ ~ G[rest].allocated /\ G[rest].bucket = 0
    /\ EndOf(G, a) = rest /\ EndOf(G, rest) = EndOf(H, a)
    /\ HeaderBytes(rest) \subseteq Payload(a, H[a].size)
    /\ Payload(rest, G[rest].size) \subseteq Payload(a, H[a].size)
    /\ Payload(a, aligned) \subseteq Payload(a, H[a].size)
    /\ Payload(rest, G[rest].size) \cap HeaderBytes(rest) = {}
    /\ Payload(a, aligned) \cap HeaderBytes(rest) = {}

LEMMA SplitLayout ==
    ASSUME NEW H, NEW lo \in Nat, NEW hi \in Nat, BlocksOK(H, lo, hi), Tiled(H, hi), KindsOK(H),
           mode # "buckets", NEW a, NEW aligned, NEW rest, NEW G, Cut(H, a, aligned, rest, G)
    PROVE  /\ BlocksOK(G, lo, hi) /\ Tiled(G, hi) /\ KindsOK(G)
           /\ InTwo(H, a, aligned, rest, G)
<1> USE DEF Cut
<1>1. /\ a \in Nat /\ H[a].size \in Nat \ {0} /\ EndOf(H, a) = a + HeaderSize + H[a].size
      /\ lo <= a /\ EndOf(H, a) <= hi /\ Aligned(a + HeaderSize)
      /\ DOMAIN H[a] = BlockFields
      /\ HeaderSize \in Nat \ {0} /\ Alignment \in Nat \ {0} /\ Aligned(HeaderSize)
  <2>1. IsBlock(H[a]) /\ Aligned(a + HeaderSize)
    BY DEF BlocksOK
  <2> QED
    BY <2>1, BlockFacts, Constants DEF IsBlock
<1>2. rest \in Nat /\ a < rest /\ rest + HeaderSize < EndOf(H, a)
  BY <1>1
<1>3. rest \notin DOMAIN H
  BY <1>1, <1>2 DEF BlocksOK
<1>4. PICK size : size = H[a].size - aligned - HeaderSize
  OBVIOUS
<1>5. size \in Nat \ {0} /\ rest + HeaderSize + size = EndOf(H, a)
  BY <1>1, <1>4
<1>6. /\ DOMAIN G = DOMAIN H \cup {rest}
      /\ \A c \in DOMAIN H \ {a} : G[c] = H[c]
      /\ G[a] = [H[a] EXCEPT !.size = aligned]
      /\ G[rest] = [size |-> size, allocated |-> FALSE, bucket |-> 0]
  BY <1>3, <1>4 DEF Put
<1>7. /\ DOMAIN G[a] = BlockFields /\ G[a].size = aligned /\ ~ G[a].allocated /\ G[a].bucket = 0
      /\ G[a].allocated \in BOOLEAN
  <2>1. IsBlock(H[a])
    BY DEF BlocksOK
  <2> QED
    BY <1>1, <1>6, <2>1 DEF BlockFields, IsBlock
<1>8. /\ DOMAIN G[rest] = BlockFields /\ G[rest].size = size /\ G[rest].allocated = FALSE
      /\ G[rest].bucket = 0
  <2>1. PICK new : new = [size |-> size, allocated |-> FALSE, bucket |-> 0]
    OBVIOUS
  <2>2. DOMAIN new = BlockFields /\ new.size = size /\ new.allocated = FALSE /\ new.bucket = 0
    BY <2>1 DEF BlockFields
  <2>3. G[rest] = new
    BY <1>6, <2>1
  <2> QED
    BY <2>2, <2>3
<1>9. /\ EndOf(G, a) = rest /\ EndOf(G, rest) = EndOf(H, a)
      /\ \A c \in DOMAIN H \ {a} : EndOf(G, c) = EndOf(H, c)
  BY <1>5, <1>6, <1>7, <1>8 DEF EndOf
<1>10. Aligned(rest + HeaderSize)
  <2>1. Aligned(a + HeaderSize + aligned) /\ a + HeaderSize + aligned \in Nat
    BY <1>1, AlignedSum
  <2> QED
    BY <1>1, <2>1, AlignedSum
<1>11. ASSUME NEW c \in DOMAIN G
       PROVE  c \in Nat /\ IsBlock(G[c]) /\ lo <= c /\ EndOf(G, c) <= hi /\ Aligned(c + HeaderSize)
  <2>1. CASE c = a
    <3>1. IsBlock(G[a])
      BY <1>7 DEF IsBlock
    <3> QED
      BY <1>1, <1>2, <1>9, <2>1, <3>1
  <2>2. CASE c = rest
    <3>1. IsBlock(G[rest])
      BY <1>5, <1>8 DEF IsBlock
    <3> QED
      BY <1>1, <1>2, <1>9, <1>10, <2>2, <3>1
  <2>3. CASE c \in DOMAIN H \ {a}
    BY <1>6, <1>9, <2>3 DEF BlocksOK
  <2> QED
    BY <1>6, <2>1, <2>2, <2>3
<1>12. ASSUME NEW c \in DOMAIN G, NEW d \in DOMAIN G, c < d PROVE EndOf(G, c) <= d
  <2>1. \A x \in DOMAIN H \ {a} : (a < x => EndOf(H, a) <= x) /\ (x < a => EndOf(H, x) <= a) /\ x \in Nat
    BY DEF BlocksOK
  <2>2. \A x \in DOMAIN H : x \in Nat /\ EndOf(H, x) \in Nat /\ x < EndOf(H, x)
    BY BlockFacts
  <2>3. CASE c = a
    BY <1>1, <1>2, <1>6, <1>9, <1>12, <2>1, <2>3
  <2>4. CASE c = rest
    <3>1. d \in DOMAIN H \ {a}
      BY <1>1, <1>2, <1>6, <1>12, <2>4
    <3>2. EndOf(H, a) <= d
      BY <1>1, <1>2, <1>12, <2>1, <2>4, <3>1
    <3> QED
      BY <1>9, <2>4, <3>2
  <2>5. CASE c \in DOMAIN H \ {a}
    <3>1. CASE d = rest
      <4>1. c < a
        BY <1>1, <1>2, <1>12, <2>1, <2>5, <3>1
      <4>2. EndOf(H, c) <= a
        BY <2>1, <2>5, <4>1
      <4>3. EndOf(G, c) = EndOf(H, c) /\ EndOf(H, c) \in Nat
        BY <1>9, <2>2, <2>5
      <4>4. EndOf(H, c) <= rest
        BY <1>1, <1>2, <4>2, <4>3
      <4> QED
        BY <3>1, <4>3, <4>4
    <3>2. CASE d \in DOMAIN H
      BY <1>9, <1>12, <2>5, <3>2 DEF BlocksOK
    <3> QED
      BY <1>6, <3>1, <3>2
  <2> QED
    BY <1>6, <2>3, <2>4, <2>5
<1>13. BlocksOK(G, lo, hi)
  BY <1>11, <1>12 DEF BlocksOK
<1>14. Tiled(G, hi)
  <2> SUFFICES ASSUME NEW c \in DOMAIN G, G[c].bucket = 0 PROVE EndOf(G, c) \in DOMAIN G \cup {hi}
    BY DEF Tiled
  <2>1. \A x \in DOMAIN H : H[x].bucket = 0 => EndOf(H, x) \in DOMAIN H \cup {hi}
    BY DEF Tiled
  <2>2. CASE c = a
    BY <1>6, <1>9, <2>2
  <2>3. CASE c = rest
    BY <1>6, <1>9, <2>1, <2>3
  <2>4. CASE c \in DOMAIN H \ {a}
    BY <1>6, <1>9, <2>1, <2>4
  <2> QED
    BY <1>6, <2>2, <2>3, <2>4
<1>15. KindsOK(G)
  BY <1>6, <1>7, <1>8 DEF KindsOK
<1>16. /\ HeaderBytes(rest) \subseteq Payload(a, H[a].size)
       /\ Payload(rest, G[rest].size) \subseteq Payload(a, H[a].size)
       /\ Payload(a, aligned) \subseteq Payload(a, H[a].size)
       /\ Payload(rest, G[rest].size) \cap HeaderBytes(rest) = {}
       /\ Payload(a, aligned) \cap HeaderBytes(rest) = {}
  BY <1>1, <1>2, <1>5, <1>8 DEF HeaderBytes, Payload
<1> QED
  BY <1>3, <1>6, <1>7, <1>8, <1>9, <1>13, <1>14, <1>15, <1>16 DEF InTwo

(* The rest takes the place of the block that was cut. *)
Replaced(H, f, k, rest, G, g) ==
    /\ k \in 1 .. Len(f) /\ rest \in Nat /\ g = [f EXCEPT ![k] = rest]
    /\ f[k] < rest /\ rest \notin DOMAIN H /\ EndOf(G, rest) = EndOf(H, f[k])
    /\ \A c \in DOMAIN H \ {f[k]} : EndOf(G, c) = EndOf(H, c)
    /\ FreeIn(G, 0) = FreeIn(H, 0) \cup {rest}

LEMMA ListSplit ==
    ASSUME NEW H, NEW lo \in Nat, NEW hi \in Nat, BlocksOK(H, lo, hi), NEW f, ListOK(H, f, {}),
           NEW k, NEW rest, NEW G, NEW g, Replaced(H, f, k, rest, G, g)
    PROVE  ListOK(G, g, {f[k]})
<1> USE DEF Replaced
<1>1. /\ f \in Seq(Nat) /\ Len(f) \in Nat /\ DOMAIN f = 1 .. Len(f)
      /\ \A j \in 1 .. Len(f) : f[j] \in DOMAIN H
      /\ \A j, m \in 1 .. Len(f) : j < m => EndOf(H, f[j]) < f[m] /\ f[j] < f[m]
      /\ \A j, m \in 1 .. Len(f) : f[j] = f[m] => j = m
  BY ListFacts
<1>2. /\ g \in Seq(Nat) /\ Len(g) = Len(f) /\ DOMAIN g = 1 .. Len(f)
      /\ g[k] = rest /\ \A j \in 1 .. Len(f) : j # k => g[j] = f[j]
  BY <1>1
<1>3. Ordered(G, g)
  <2> SUFFICES ASSUME NEW j \in 1 .. Len(f), NEW m \in 1 .. Len(f), j < m
               PROVE  EndOf(G, g[j]) < g[m]
    BY <1>2 DEF Ordered
  <2>1. CASE j = k
    <3>1. m # k /\ g[m] = f[m] /\ EndOf(G, g[j]) = EndOf(H, f[k])
      BY <1>2, <2>1
    <3> QED
      BY <1>1, <2>1, <3>1
  <2>2. CASE j # k
    <3>1. f[j] \in DOMAIN H \ {f[k]} /\ g[j] = f[j]
      BY <1>1, <1>2, <2>2
    <3>2. EndOf(G, g[j]) = EndOf(H, f[j]) /\ EndOf(H, f[j]) \in Nat
      BY <3>1, BlockFacts
    <3>3. EndOf(H, f[j]) < f[m] /\ f[m] \in Nat
      BY <1>1
    <3>4. m = k => f[m] < g[m]
      BY <1>2
    <3>5. m # k => f[m] = g[m]
      BY <1>2
    <3> QED
      BY <1>2, <3>2, <3>3, <3>4, <3>5
  <2> QED
    BY <2>1, <2>2
<1>4. Range(f) = FreeIn(H, 0)
  BY DEF ListOK
<1>5. ASSUME NEW x \in Range(g) PROVE x \in FreeIn(G, 0) \ {f[k]}
  <2>1. PICK j \in 1 .. Len(f) : x = g[j]
    BY <1>2, <1>5 DEF Range
  <2>2. CASE j = k
    BY <1>1, <1>2, <2>1, <2>2
  <2>3. CASE j # k
    <3>1. x = f[j] /\ f[j] \in Range(f) /\ f[j] # f[k]
      BY <1>1, <1>2, <2>1, <2>3 DEF Range
    <3> QED
      BY <1>4, <3>1
  <2> QED
    BY <2>2, <2>3
<1>6. ASSUME NEW x \in FreeIn(G, 0), x # f[k] PROVE x \in Range(g)
  <2>1. CASE x = rest
    BY <1>2, <2>1 DEF Range
  <2>2. CASE x \in Range(f)
    <3>1. PICK j \in 1 .. Len(f) : x = f[j]
      BY <1>1, <2>2 DEF Range
    <3>2. x = g[j]
      BY <1>2, <1>6, <3>1
    <3> QED
      BY <1>2, <3>2 DEF Range
  <2> QED
    BY <1>4, <1>6, <2>1, <2>2
<1> QED
  BY <1>2, <1>3, <1>5, <1>6 DEF ListOK

LEMMA FillFacts ==
    ASSUME NEW B, NEW where, NEW what
    PROVE  /\ DOMAIN Fill(B, where, what) = DOMAIN B
           /\ \A b \in DOMAIN B : Fill(B, where, what)[b] = IF b \in where THEN what ELSE B[b]
  BY DEF Fill

(* The pool q is p with a large enough block of the list in hand *)
InHand(p, q, a, aligned) ==
    /\ ShapeOK(q, {a}) /\ q.end = p.end /\ a \in DOMAIN q.headers /\ ~ q.headers[a].allocated
    /\ q.headers[a].size >= aligned /\ q.headers[a].bucket = 0
    /\ q.total_used = p.total_used /\ q.fallback_used = p.fallback_used
    /\ AllocatedIn(q.headers) = AllocatedIn(p.headers)
    /\ Untouched(p, q, AllocatedIn(p.headers))

LEMMA SplitShape ==
    ASSUME NEW p, ShapeOK(p, {}), mode # "buckets", NEW aligned \in Nat \ {0}, Aligned(aligned),
           NEW k \in 1 .. Len(p.free_list),
           p.headers[p.free_list[k]].size >= aligned + 2 * HeaderSize + Alignment
    PROVE  InHand(p, Split(p, k, aligned), p.free_list[k], aligned)
<1> DEFINE a == p.free_list[k]
           s == Split(p, k, aligned)
<1> SUFFICES InHand(p, s, a, aligned)
  OBVIOUS
<1> DEFINE H == p.headers
           f == p.free_list
           B == p.bytes
           G == s.headers
           C == s.bytes
           rest == a + HeaderSize + aligned
<1>1. /\ DOMAIN p = PoolFields /\ p.initialized = TRUE
      /\ p.start \in Nat /\ p.end \in Nat /\ p.end <= SizeMax
      /\ BlocksOK(H, p.start, p.end) /\ Tiled(H, p.end) /\ KindsOK(H)
      /\ ListOK(H, f, {}) /\ BucketsOK(H, p.bucket_free_list, p.bucket_free, {})
      /\ BytesOK(B, p.start, p.end) /\ Clean(H, B)
  BY ShapeParts
<1>2. /\ DOMAIN s = PoolFields /\ s.initialized = TRUE /\ s.start = p.start /\ s.end = p.end
      /\ G = Put([H EXCEPT ![a].size = aligned], rest,
                 [size |-> H[a].size - aligned - HeaderSize, allocated |-> FALSE, bucket |-> 0])
      /\ C = Fill(B, HeaderBytes(rest), Header) /\ s.free_list = [f EXCEPT ![k] = rest]
      /\ s.bucket_free_list = p.bucket_free_list /\ s.bucket_free = p.bucket_free
      /\ s.total_used = p.total_used /\ s.fallback_used = p.fallback_used
  BY <1>1 DEF Split, PoolFields
<1>3. a \in DOMAIN H /\ ~ H[a].allocated /\ H[a].bucket = 0 /\ a \in Nat
  <2>1. a \in DOMAIN H /\ ~ H[a].allocated /\ H[a].bucket = 0
    BY <1>1, ListFacts
  <2> QED
    BY <1>1, <2>1, BlockFacts
<1> HIDE DEF H, f, B, G, C, a, s
<1>4. H[a].size >= aligned + 2 * HeaderSize + Alignment /\ a = f[k] /\ k \in 1 .. Len(f)
  BY DEF H, f, a
<1>5. rest \in Nat /\ a < rest
  BY <1>3, Constants
<1> HIDE DEF rest
<1>6. rest = a + HeaderSize + aligned
  BY DEF rest
<1>7. BlocksOK(G, p.start, p.end) /\ Tiled(G, p.end) /\ KindsOK(G) /\ InTwo(H, a, aligned, rest, G)
  <2>1. Cut(H, a, aligned, rest, G)
    BY <1>2, <1>3, <1>4, <1>6 DEF Cut
  <2> QED
    BY <1>1, <2>1, SplitLayout
<1>8. FreeIn(G, 0) = FreeIn(H, 0) \cup {rest} /\ \A i \in Buckets : FreeIn(G, i) \ {a} = FreeIn(H, i)
  <2>1. \A i \in Buckets : i # 0
    BY BucketFacts
  <2> QED
    BY <1>3, <1>7, <2>1 DEF FreeIn, InTwo
<1>9. ListOK(G, s.free_list, {a})
  <2>1. Replaced(H, f, k, rest, G, s.free_list)
    BY <1>2, <1>4, <1>5, <1>7, <1>8 DEF Replaced, InTwo
  <2> QED
    BY <1>1, <1>4, <2>1, ListSplit
<1>10. BucketsOK(G, s.bucket_free_list, s.bucket_free, {a})
  <2>1. BucketsOK(G, p.bucket_free_list, p.bucket_free, {a})
    BY <1>1, <1>8, BucketsWithout
  <2> QED
    BY <1>2, <2>1
<1>11. /\ DOMAIN C = DOMAIN B
       /\ \A b \in DOMAIN B : C[b] = IF b \in HeaderBytes(rest) THEN Header ELSE B[b]
  BY <1>2, FillFacts
<1>12. BytesOK(C, p.start, p.end)
  BY <1>1, <1>11 DEF BytesOK, Tags
<1>13. ASSUME NEW c \in DOMAIN H \ {a}, NEW b \in Payload(c, H[c].size) PROVE C[b] = B[b]
  <2>1. Payload(a, H[a].size) \cap Payload(c, H[c].size) = {}
    BY <1>1, <1>3, BlocksApart
  <2>2. b \in DOMAIN B
    BY <1>1, BlockFacts DEF BytesOK
  <2> QED
    BY <1>7, <1>11, <2>1, <2>2 DEF InTwo
<1>14. Payload(a, H[a].size) \subseteq DOMAIN B
  BY <1>1, <1>3, BlockFacts DEF BytesOK
<1>15. Clean(G, C)
  <2> SUFFICES ASSUME NEW c \in DOMAIN G, ~ G[c].allocated, NEW b \in Payload(c, G[c].size)
               PROVE  C[b] \in {Zero, Junk}
    BY DEF Clean
  <2>1. \A x \in Payload(a, H[a].size) : B[x] \in {Zero, Junk}
    BY <1>1, <1>3 DEF Clean
  <2>2. CASE c = a \/ c = rest
    BY <1>7, <1>11, <1>14, <2>1, <2>2 DEF InTwo
  <2>3. CASE c \in DOMAIN H \ {a}
    BY <1>1, <1>7, <1>13, <2>3 DEF Clean, InTwo
  <2> QED
    BY <1>7, <2>2, <2>3 DEF InTwo
<1>16. ShapeOK(s, {a})
  BY <1>1, <1>2, <1>7, <1>9, <1>10, <1>12, <1>15 DEF ShapeOK, G, C
<1>17. AllocatedIn(G) = AllocatedIn(H)
  BY <1>3, <1>7 DEF AllocatedIn, InTwo
<1>18. Untouched(p, s, AllocatedIn(H))
  <2> SUFFICES ASSUME NEW c \in AllocatedIn(H)
               PROVE  /\ c \in DOMAIN G /\ G[c] = H[c]
                      /\ \A b \in Payload(c, H[c].size) : C[b] = B[b]
    BY DEF Untouched, H, G, B, C
  <2>1. c \in DOMAIN H \ {a}
    BY <1>3 DEF AllocatedIn
  <2> QED
    BY <1>7, <1>13, <2>1 DEF InTwo
<1>19. aligned >= aligned
  OBVIOUS
<1> QED
  BY <1>2, <1>3, <1>7, <1>16, <1>17, <1>18, <1>19 DEF H, G, InTwo, InHand

(* noxtls_mem_alloc_fallback *)
LEMMA AllocFallbackOK ==
    ASSUME NEW p, PoolOK(p), NEW aligned \in Nat \ {0}, Aligned(aligned), mode # "buckets"
    PROVE  LET r == AllocFallback(p, aligned)
           IN  IF r.found THEN Allocation(p, r.pool, r.header, aligned)
               ELSE \A a \in FreeIn(p.headers, 0) : p.headers[a].size < aligned
<1> DEFINE r == AllocFallback(p, aligned)
           H == p.headers
           f == p.free_list
           I == { i \in 1 .. Len(f) : H[f[i]].size >= aligned }
           k == IF I # {} THEN Min(I) ELSE 0
           a == f[k]
           found == IF H[a].size >= aligned + 2 * HeaderSize + Alignment
                    THEN Split(p, k, aligned)
                    ELSE [p EXCEPT !.free_list = RemoveAt(@, k)]
           q == [found EXCEPT !.fallback_used = @ + found.headers[a].size]
<1>1. r = IF aligned > SizeMax - HeaderSize \/ k = 0 THEN None(p) ELSE Took(q, a)
  BY DEF AllocFallback, SelectInSeq
<1>2. ShapeOK(p, {}) /\ CountersOK(p)
  BY DEF PoolOK
<1>3. /\ DOMAIN p = PoolFields /\ p.start \in Nat /\ p.end \in Nat /\ p.end <= SizeMax
      /\ BlocksOK(H, p.start, p.end) /\ ListOK(H, f, {})
      /\ BucketsOK(H, p.bucket_free_list, p.bucket_free, {})
  BY <1>2, ShapeParts
<1>4. Range(f) = FreeIn(H, 0) /\ DOMAIN f = 1 .. Len(f)
  BY <1>3 DEF ListOK
<1>5. CASE aligned > SizeMax - HeaderSize \/ k = 0
  <2>1. ~ r.found
    <3>1. r = None(p)
      BY <1>1, <1>5
    <3> QED
      BY <3>1 DEF None
  <2>2. ASSUME NEW c \in FreeIn(H, 0) PROVE H[c].size < aligned
    <3>1. PICK j \in 1 .. Len(f) : c = f[j]
      BY <1>4, <2>2 DEF Range
    <3>2. /\ c \in Nat /\ H[c].size \in Nat /\ EndOf(H, c) <= p.end /\ HeaderSize \in Nat /\ SizeMax \in Nat
          /\ EndOf(H, c) = c + HeaderSize + H[c].size
      BY <1>3, BlockFacts, Constants DEF FreeIn
    <3>3. CASE aligned > SizeMax - HeaderSize
      BY <1>3, <3>2, <3>3
    <3>4. CASE k = 0
      <4>1. I = {}
        <5>1. SUFFICES ASSUME I # {} PROVE FALSE
          OBVIOUS
        <5>2. I \subseteq Nat
          OBVIOUS
        <5>3. Min(I) \in I
          BY <5>1, <5>2, LeastOf
        <5> QED
          BY <3>4, <5>1, <5>3
      <4>2. ~ (H[f[j]].size >= aligned)
        BY <4>1
      <4> QED
        BY <3>1, <3>2, <4>2
    <3> QED
      BY <1>5, <3>3, <3>4
  <2> QED
    BY <2>1, <2>2
<1>6. CASE ~ (aligned > SizeMax - HeaderSize \/ k = 0)
  <2>1. k \in 1 .. Len(f) /\ H[a].size >= aligned
    <3>1. I # {} /\ I \subseteq Nat
      BY <1>6
    <3>2. Min(I) \in I
      BY <3>1, LeastOf
    <3> QED
      BY <3>1, <3>2
  <2> HIDE DEF k
  <2>2. a \in DOMAIN H /\ ~ H[a].allocated /\ H[a].bucket = 0 /\ a \notin AllocatedIn(H)
    BY <1>3, <2>1, ListFacts DEF AllocatedIn
  <2> HIDE DEF a
  <2>3. a = f[k]
    BY DEF a
  <2>4. InHand(p, found, a, aligned)
    <3>1. CASE H[a].size >= aligned + 2 * HeaderSize + Alignment
      <4>1. found = Split(p, k, aligned)
        BY <3>1
      <4> HIDE DEF found
      <4>2. p.headers[p.free_list[k]].size >= aligned + 2 * HeaderSize + Alignment
        BY <2>3, <3>1
      <4>3. InHand(p, Split(p, k, aligned), p.free_list[k], aligned)
        BY <1>2, <2>1, <4>2, SplitShape
      <4> QED
        BY <2>3, <4>1, <4>3
    <3>2. CASE ~ (H[a].size >= aligned + 2 * HeaderSize + Alignment)
      <4>1. found = [p EXCEPT !.free_list = RemoveAt(f, k)]
        BY <3>2
      <4> HIDE DEF found
      <4>2. /\ DOMAIN found = PoolFields /\ found.initialized = p.initialized /\ found.start = p.start
            /\ found.end = p.end /\ found.headers = H /\ found.bytes = p.bytes
            /\ found.free_list = RemoveAt(f, k) /\ found.bucket_free_list = p.bucket_free_list
            /\ found.bucket_free = p.bucket_free
            /\ found.total_used = p.total_used /\ found.fallback_used = p.fallback_used
        BY <1>3, <4>1 DEF PoolFields
      <4>3. ListOK(H, found.free_list, {a})
        BY <1>3, <2>1, <2>3, <4>2, ListWithout
      <4>4. \A i \in Buckets : FreeIn(H, i) \ {a} = FreeIn(H, i)
        BY <2>2, BucketFacts DEF FreeIn
      <4>5. BucketsOK(H, found.bucket_free_list, found.bucket_free, {a})
        BY <1>3, <4>2, <4>4, BucketsWithout
      <4>6. ShapeOK(found, {a})
        BY <1>2, <4>2, <4>3, <4>5 DEF ShapeOK
      <4>7. Untouched(p, found, AllocatedIn(H))
        BY <4>2 DEF Untouched, AllocatedIn
      <4> QED
        BY <2>1, <2>2, <2>3, <4>2, <4>6, <4>7 DEF InHand
    <3> QED
      BY <3>1, <3>2
  <2> HIDE DEF found
  <2>5. /\ DOMAIN q = PoolFields /\ q.initialized = found.initialized /\ q.start = found.start
        /\ q.end = found.end /\ q.headers = found.headers /\ q.bytes = found.bytes
        /\ q.free_list = found.free_list /\ q.bucket_free_list = found.bucket_free_list
        /\ q.bucket_free = found.bucket_free /\ q.total_used = found.total_used
        /\ q.fallback_used = found.fallback_used + found.headers[a].size
    <3>1. DOMAIN found = PoolFields
      BY <2>4, ShapeParts DEF InHand
    <3> QED
      BY <3>1 DEF PoolFields
  <2> HIDE DEF q
  <2>6. ShapeOK(q, {a})
    BY <2>4, <2>5 DEF ShapeOK, InHand
  <2>7. Untouched(p, q, AllocatedIn(H))
    BY <2>4, <2>5 DEF Untouched, InHand
  <2>8. Allocation(p, Took(q, a).pool, a, aligned)
    BY <2>2, <2>4, <2>5, <2>6, <2>7, TakesBlock DEF InHand
  <2>9. r = Took(q, a)
    BY <1>1, <1>6
  <2>10. r.found = TRUE /\ r.header = a /\ r.pool = Took(q, a).pool
    BY <2>9 DEF Took
  <2> QED
    BY <2>8, <2>10
<1> QED
  BY <1>5, <1>6

FreeBlocks(H) == DOMAIN H \ AllocatedIn(H)

LEMMA BucketsFull ==
    ASSUME NEW p, ShapeOK(p, {}), mode # "legacy", NEW aligned \in Nat,
           \A i \in Buckets : BucketSize(i) >= aligned => p.bucket_free_list[i] = << >>,
           NEW a \in FreeBlocks(p.headers), p.headers[a].bucket # 0
    PROVE  p.headers[a].size < aligned
<1> DEFINE H == p.headers
           i == H[a].bucket
<1>1. BlocksOK(H, p.start, p.end) /\ KindsOK(H) /\ BucketsOK(H, p.bucket_free_list, p.bucket_free, {})
  BY ShapeParts
<1>2. a \in DOMAIN H /\ ~ H[a].allocated
  BY DEF FreeBlocks, AllocatedIn
<1>3. i \in Buckets /\ i \in UsedBuckets /\ H[a].size = BucketSize(i)
  BY <1>1, <1>2 DEF BlocksOK, IsBlock, UsedBuckets
<1>4. BucketOK(H, i, p.bucket_free_list[i], p.bucket_free[i], {}) /\ a \in FreeIn(H, i)
  BY <1>1, <1>2, <1>3 DEF BucketsOK, FreeIn
<1>5. p.bucket_free_list[i] # << >>
  BY <1>4 DEF BucketOK, Range
<1>6. ~ (BucketSize(i) >= aligned) /\ BucketSize(i) \in Nat
  BY <1>3, <1>5, BucketFacts
<1> QED
  BY <1>3, <1>6

(* FindBlock: a block, or no free block is large enough *)
LEMMA FindBlockOK ==
    ASSUME NEW p, PoolOK(p), mode \in Modes, NEW aligned \in Nat \ {0}, Aligned(aligned)
    PROVE  LET r == FindBlock(p, aligned)
           IN  IF r.found THEN Allocation(p, r.pool, r.header, aligned)
               ELSE \A a \in FreeBlocks(p.headers) : p.headers[a].size < aligned
<1> DEFINE H == p.headers
           rb == AllocBucket(p, aligned)
           rf == AllocFallback(p, aligned)
           r == FindBlock(p, aligned)
<1>1. mode \in {"legacy", "buckets", "hybrid"}
  BY PoolAssumption
<1>2. ShapeOK(p, {}) /\ KindsOK(H) /\ BlocksOK(H, p.start, p.end)
  <2>1. ShapeOK(p, {})
    BY DEF PoolOK
  <2> QED
    BY <2>1, ShapeParts
<1>3. mode # "legacy" =>
         IF rb.found THEN Allocation(p, rb.pool, rb.header, aligned)
         ELSE \A a \in FreeBlocks(H) : H[a].bucket # 0 => H[a].size < aligned
  BY <1>2, AllocBucketOK, BucketsFull
<1>4. mode # "buckets" =>
         IF rf.found THEN Allocation(p, rf.pool, rf.header, aligned)
         ELSE \A a \in FreeBlocks(H) : H[a].bucket = 0 => H[a].size < aligned
  <2>1. \A a \in FreeBlocks(H) : H[a].bucket = 0 => a \in FreeIn(H, 0)
    BY DEF FreeBlocks, FreeIn, AllocatedIn
  <2> QED
    BY <2>1, AllocFallbackOK
<1>5. r = IF mode = "legacy" THEN rf ELSE IF mode = "buckets" THEN rb
          ELSE IF rb.found THEN rb ELSE rf
  BY <1>1 DEF FindBlock
<1>6. \A a \in FreeBlocks(H) : /\ mode = "legacy" => H[a].bucket = 0
                               /\ mode = "buckets" => H[a].bucket # 0
  BY <1>2 DEF KindsOK, UsedBuckets, FreeBlocks
<1> HIDE DEF H, rb, rf, r
<1>7. IF r.found THEN Allocation(p, r.pool, r.header, aligned)
      ELSE \A a \in FreeBlocks(H) : H[a].size < aligned
  <2>1. CASE mode = "legacy"
    BY <1>4, <1>5, <1>6, <2>1
  <2>2. CASE mode = "buckets"
    BY <1>3, <1>5, <1>6, <2>2
  <2>3. CASE mode # "legacy" /\ mode # "buckets" /\ rb.found
    BY <1>3, <1>5, <2>3
  <2>4. CASE mode # "legacy" /\ mode # "buckets" /\ ~ rb.found
    BY <1>3, <1>4, <1>5, <2>4
  <2> QED
    BY <2>1, <2>2, <2>3, <2>4
<1> QED
  BY <1>7 DEF H, r

(* noxtls_mem_allocate_at *)
LEMMA AllocateOK ==
    ASSUME NEW p, PoolOK(p), mode \in Modes, NEW size \in Nat
    PROVE  LET r == Allocate(p, size)
           IN  IF r.found THEN Allocation(p, r.pool, r.header, size)
               ELSE size = 0 \/ \A a \in FreeBlocks(p.headers) : p.headers[a].size < AlignUp(size)
<1> DEFINE H == p.headers
           r == Allocate(p, size)
<1>1. AlignUp(size) \in Nat /\ Aligned(AlignUp(size)) /\ size <= AlignUp(size)
  BY AlignUpFacts
<1>2. CASE size = 0 \/ size > SizeMax - (Alignment - 1)
  <2>1. r = None(p)
    BY <1>2 DEF Allocate
  <2>2. ~ r.found
    BY <2>1 DEF None
  <2>3. ASSUME NEW a \in FreeBlocks(H), size # 0 PROVE H[a].size < AlignUp(size)
    <3>1. BlocksOK(H, p.start, p.end) /\ p.start \in Nat /\ p.end \in Nat /\ p.end <= SizeMax
      BY ShapeParts DEF PoolOK
    <3>2. a \in DOMAIN H
      BY DEF FreeBlocks
    <3>3. /\ a \in Nat /\ H[a].size \in Nat /\ a + HeaderSize + H[a].size <= p.end
      BY <3>1, <3>2, BlockFacts
    <3> QED
      BY <1>1, <1>2, <2>3, <3>1, <3>3, Constants
  <2> QED
    BY <2>2, <2>3
<1>3. CASE ~ (size = 0 \/ size > SizeMax - (Alignment - 1))
  <2>1. r = FindBlock(p, AlignUp(size))
    <3>1. AlignSize(size) = AlignUp(size)
      BY <1>3, Constants, AlignSizeFacts
    <3> QED
      BY <1>3, <3>1 DEF Allocate
  <2>2. AlignUp(size) \in Nat \ {0}
    BY <1>1, <1>3
  <2>3. IF r.found THEN Allocation(p, r.pool, r.header, AlignUp(size))
        ELSE \A a \in FreeBlocks(H) : H[a].size < AlignUp(size)
    BY <1>1, <2>1, <2>2, FindBlockOK
  <2> HIDE DEF r
  <2>4. ASSUME r.found PROVE Allocation(p, r.pool, r.header, size)
    <3>1. Allocation(p, r.pool, r.header, AlignUp(size))
      BY <2>3, <2>4
    <3>2. r.pool.headers[r.header].size \in Nat
      <4>1. /\ BlocksOK(r.pool.headers, r.pool.start, r.pool.end) /\ r.pool.start \in Nat
            /\ r.pool.end \in Nat /\ r.header \in DOMAIN r.pool.headers
        BY <3>1, ShapeParts DEF Allocation, PoolOK
      <4> QED
        BY <4>1, BlockFacts
    <3>3. r.pool.headers[r.header].size >= size
      BY <1>1, <3>1, <3>2 DEF Allocation
    <3> QED
      BY <3>1, <3>3 DEF Allocation
  <2>5. IF r.found THEN Allocation(p, r.pool, r.header, size)
        ELSE size = 0 \/ \A a \in FreeBlocks(H) : H[a].size < AlignUp(size)
    BY <2>3, <2>4
  <2> QED
    BY <2>5 DEF r
<1> QED
  BY <1>2, <1>3

(* A free block is too small for a request, or the buffer ends behind it *)
LEMMA FullPool ==
    ASSUME NEW p, PoolOK(p), NEW size \in Nat, NEW a \in FreeBlocks(p.headers),
           p.headers[a].size < AlignUp(size)
    PROVE  \/ p.headers[a].size < size
           \/ EndOf(p.headers, a) = p.end
<1> DEFINE H == p.headers
<1>1. SUFFICES ASSUME EndOf(H, a) # p.end PROVE H[a].size < size
  OBVIOUS
<1>2. BlocksOK(H, p.start, p.end) /\ Tiled(H, p.end) /\ p.start \in Nat /\ p.end \in Nat
  BY ShapeParts DEF PoolOK
<1>3. a \in DOMAIN H /\ Aligned(a + HeaderSize)
  BY <1>2 DEF FreeBlocks, BlocksOK
<1>4. /\ a \in Nat /\ H[a].size \in Nat /\ EndOf(H, a) \in Nat
      /\ EndOf(H, a) = a + HeaderSize + H[a].size
      /\ HeaderSize \in Nat /\ Aligned(HeaderSize)
  BY <1>2, <1>3, BlockFacts, Constants
<1>5. Aligned(H[a].size)
  <2>1. CASE H[a].bucket # 0
    BY <1>2, <1>3, <2>1, BucketFacts DEF BlocksOK, IsBlock
  <2>2. CASE H[a].bucket = 0
    <3>1. EndOf(H, a) \in DOMAIN H
      BY <1>1, <1>2, <1>3, <2>2 DEF Tiled
    <3>2. Aligned(EndOf(H, a) + HeaderSize)
      BY <1>2, <3>1 DEF BlocksOK
    <3>3. Aligned(EndOf(H, a) + HeaderSize - HeaderSize)
      BY <1>4, <3>2, AlignedSum
    <3>4. EndOf(H, a) + HeaderSize - HeaderSize = EndOf(H, a) /\ EndOf(H, a) - (a + HeaderSize) = H[a].size
      BY <1>4
    <3>5. Aligned(EndOf(H, a))
      BY <3>3, <3>4
    <3>6. a + HeaderSize \in Nat /\ a + HeaderSize <= EndOf(H, a)
      BY <1>4
    <3>7. Aligned(EndOf(H, a) - (a + HeaderSize))
      BY <1>3, <1>4, <3>5, <3>6, AlignedSum
    <3> QED
      BY <3>4, <3>7
  <2> QED
    BY <2>1, <2>2
<1>6. ASSUME size <= H[a].size PROVE FALSE
  <2>1. AlignUp(size) <= H[a].size /\ AlignUp(size) \in Nat
    BY <1>4, <1>5, <1>6, AlignUpFacts
  <2> QED
    BY <1>4, <2>1
<1> QED
  BY <1>4, <1>6

-----------------------------------------------------------------------------
(* Writing *)

(* q is p with other bytes in the allocated block a *)
Rewritten(p, q, a) ==
    /\ a \in AllocatedIn(p.headers) /\ DOMAIN q = PoolFields
    /\ q.initialized = p.initialized /\ q.start = p.start /\ q.end = p.end /\ q.headers = p.headers
    /\ q.free_list = p.free_list /\ q.bucket_free_list = p.bucket_free_list
    /\ q.bucket_free = p.bucket_free /\ q.total_used = p.total_used /\ q.fallback_used = p.fallback_used
    /\ DOMAIN q.bytes = DOMAIN p.bytes /\ \A b \in DOMAIN p.bytes : q.bytes[b] \in Tags
    /\ \A b \in DOMAIN p.bytes \ Payload(a, p.headers[a].size) : q.bytes[b] = p.bytes[b]

LEMMA RewrittenOK ==
    ASSUME NEW p, PoolOK(p), NEW q, NEW a, Rewritten(p, q, a)
    PROVE  PoolOK(q) /\ Untouched(p, q, AllocatedIn(p.headers) \ {a})
<1> DEFINE H == p.headers
<1>1. ShapeOK(p, {}) /\ CountersOK(p)
  BY DEF PoolOK
<1>2. /\ BlocksOK(H, p.start, p.end) /\ p.start \in Nat /\ p.end \in Nat
      /\ BytesOK(p.bytes, p.start, p.end) /\ Clean(H, p.bytes)
  BY <1>1, ShapeParts
<1>3. a \in DOMAIN H /\ H[a].allocated
  BY DEF Rewritten, AllocatedIn
<1>4. ASSUME NEW c \in DOMAIN H \ {a}, NEW b \in Payload(c, H[c].size) PROVE q.bytes[b] = p.bytes[b]
  <2>1. Payload(a, H[a].size) \cap Payload(c, H[c].size) = {}
    BY <1>2, <1>3, BlocksApart
  <2>2. b \in DOMAIN p.bytes
    BY <1>2, BlockFacts DEF BytesOK
  <2> QED
    BY <2>1, <2>2 DEF Rewritten
<1>5. Untouched(p, q, AllocatedIn(H) \ {a})
  BY <1>4 DEF Untouched, Rewritten, AllocatedIn
<1>6. Clean(q.headers, q.bytes)
  BY <1>2, <1>3, <1>4 DEF Clean, Rewritten
<1>7. BytesOK(q.bytes, q.start, q.end)
  BY <1>2 DEF BytesOK, Rewritten
<1>8. ShapeOK(q, {})
  BY <1>1, <1>6, <1>7 DEF ShapeOK, Rewritten
<1>9. CountersOK(q)
  BY <1>1 DEF CountersOK, Rewritten
<1> QED
  BY <1>5, <1>8, <1>9 DEF PoolOK

(* A caller writes into a block it holds *)
LEMMA WrittenOK ==
    ASSUME NEW p, PoolOK(p), NEW a \in AllocatedIn(p.headers), NEW from \in Nat, NEW to \in Nat,
           to <= p.headers[a].size, NEW tag \in Tags
    PROVE  LET q == Written(p, a + HeaderSize, from, to, tag)
           IN  /\ Rewritten(p, q, a)
               /\ \A b \in DOMAIN p.bytes :
                     q.bytes[b] = IF b \in a + HeaderSize + from .. a + HeaderSize + to - 1
                                  THEN tag ELSE p.bytes[b]
<1> DEFINE q == Written(p, a + HeaderSize, from, to, tag)
           where == a + HeaderSize + from .. a + HeaderSize + to - 1
<1>1. /\ DOMAIN p = PoolFields /\ BlocksOK(p.headers, p.start, p.end) /\ p.start \in Nat /\ p.end \in Nat
      /\ BytesOK(p.bytes, p.start, p.end)
  BY ShapeParts DEF PoolOK
<1>2. a \in DOMAIN p.headers
  BY DEF AllocatedIn
<1>3. a \in Nat /\ p.headers[a].size \in Nat /\ HeaderSize \in Nat
  BY <1>1, <1>2, BlockFacts, Constants
<1>4. where \subseteq Payload(a, p.headers[a].size)
  BY <1>3 DEF Payload
<1>5. q = [p EXCEPT !.bytes = Fill(p.bytes, where, tag)]
  BY DEF Written
<1> HIDE DEF q, where
<1>6. /\ DOMAIN Fill(p.bytes, where, tag) = DOMAIN p.bytes
      /\ \A b \in DOMAIN p.bytes :
            Fill(p.bytes, where, tag)[b] = IF b \in where THEN tag ELSE p.bytes[b]
  BY FillFacts
<1>7. /\ DOMAIN q = PoolFields /\ q.initialized = p.initialized /\ q.start = p.start /\ q.end = p.end
      /\ q.headers = p.headers /\ q.free_list = p.free_list /\ q.bucket_free_list = p.bucket_free_list
      /\ q.bucket_free = p.bucket_free /\ q.total_used = p.total_used /\ q.fallback_used = p.fallback_used
      /\ q.bytes = Fill(p.bytes, where, tag)
  BY <1>1, <1>5 DEF PoolFields
<1>8. \A b \in DOMAIN p.bytes : q.bytes[b] \in Tags
  BY <1>1, <1>6, <1>7 DEF BytesOK
<1>9. Rewritten(p, q, a)
  BY <1>4, <1>6, <1>7, <1>8 DEF Rewritten
<1> QED
  BY <1>6, <1>7, <1>9 DEF q, where

(* What a caller holds is not disturbed by what leaves its block alone *)
LEMMA HoldKept ==
    ASSUME NEW p, PoolOK(p), NEW q, NEW S, Untouched(p, q, S), S \subseteq DOMAIN p.headers,
           NEW ptr, NEW hold, HoldOK(p, ptr, hold), ptr - HeaderSize \in S, ptr \in Nat
    PROVE  HoldOK(q, ptr, hold)
<1> DEFINE a == ptr - HeaderSize
<1>1. BlocksOK(p.headers, p.start, p.end) /\ p.start \in Nat /\ p.end \in Nat
  BY ShapeParts DEF PoolOK
<1>2. a \in Nat /\ p.headers[a].size \in Nat
  BY <1>1, BlockFacts
<1>3. hold.size \in Nat /\ hold.size <= p.headers[a].size /\ HeaderSize \in Nat
  BY Constants DEF HoldOK
<1>4. ptr .. ptr + hold.size - 1 \subseteq Payload(a, p.headers[a].size)
  BY <1>2, <1>3 DEF Payload
<1>5. q.headers[a] = p.headers[a] /\ \A b \in Payload(a, p.headers[a].size) : q.bytes[b] = p.bytes[b]
  BY DEF Untouched
<1> QED
  BY <1>4, <1>5 DEF HoldOK

-----------------------------------------------------------------------------
(* Release *)

(* The block a of p is free in q, and the others as they were *)
Release(p, q, a) ==
    /\ PoolOK(q) /\ q.end = p.end
    /\ AllocatedIn(q.headers) = AllocatedIn(p.headers) \ {a}
    /\ Untouched(p, q, AllocatedIn(p.headers) \ {a})

Cleared(p, a) ==
    [p EXCEPT !.bytes = Fill(@, Payload(a, p.headers[a].size), Zero),
              !.headers[a].allocated = FALSE,
              !.total_used = Less(@, p.headers[a].size)]

(* The cleared block in hand, on its way to a list *)
Unlinked(p, q, a) ==
    /\ ShapeOK(q, {a}) /\ q.end = p.end
    /\ a \in DOMAIN q.headers /\ ~ q.headers[a].allocated
    /\ q.headers[a].bucket = p.headers[a].bucket /\ q.headers[a].size = p.headers[a].size
    /\ AllocatedIn(q.headers) = AllocatedIn(p.headers) \ {a}
    /\ Untouched(p, q, AllocatedIn(p.headers) \ {a})
    /\ q.total_used = Cardinality(Used(q.headers, AllocatedIn(q.headers)))
    /\ q.fallback_used = Cardinality(Used(q.headers, ListAllocated(q.headers)))
                           + (IF q.headers[a].bucket = 0 THEN q.headers[a].size ELSE 0)

LEMMA ClearedOK ==
    ASSUME NEW p, PoolOK(p), NEW a \in AllocatedIn(p.headers)
    PROVE  Unlinked(p, Cleared(p, a), a)
<1> DEFINE q == Cleared(p, a)
           H == p.headers
           G == q.headers
           B == p.bytes
           C == q.bytes
<1> SUFFICES Unlinked(p, q, a)
  OBVIOUS
<1>1. ShapeOK(p, {}) /\ CountersOK(p)
  BY DEF PoolOK
<1>2. /\ DOMAIN p = PoolFields /\ p.initialized = TRUE
      /\ p.start \in Nat /\ p.end \in Nat /\ p.end <= SizeMax
      /\ BlocksOK(H, p.start, p.end) /\ Tiled(H, p.end) /\ KindsOK(H)
      /\ ListOK(H, p.free_list, {}) /\ BucketsOK(H, p.bucket_free_list, p.bucket_free, {})
      /\ BytesOK(B, p.start, p.end) /\ Clean(H, B)
  BY <1>1, ShapeParts
<1>3. /\ DOMAIN q = PoolFields /\ q.initialized = TRUE /\ q.start = p.start /\ q.end = p.end
      /\ G = [H EXCEPT ![a] = [H[a] EXCEPT !.allocated = FALSE]]
      /\ C = Fill(B, Payload(a, H[a].size), Zero) /\ q.free_list = p.free_list
      /\ q.bucket_free_list = p.bucket_free_list /\ q.bucket_free = p.bucket_free
      /\ q.total_used = Less(p.total_used, H[a].size) /\ q.fallback_used = p.fallback_used
  BY <1>2 DEF Cleared, PoolFields
<1>4. a \in DOMAIN H /\ H[a].allocated /\ \A c \in DOMAIN H : DOMAIN H[c] = BlockFields /\ H[c].allocated \in BOOLEAN
  BY <1>2 DEF AllocatedIn, BlocksOK, IsBlock
<1> HIDE DEF q, H, G, B, C
<1>5. /\ DOMAIN G = DOMAIN H /\ DOMAIN G[a] = BlockFields
      /\ G[a].allocated = FALSE /\ G[a].size = H[a].size /\ G[a].bucket = H[a].bucket
      /\ \A c \in DOMAIN H \ {a} : G[c] = H[c]
  <2>1. DOMAIN H[a] = BlockFields
    BY <1>4
  <2> QED
    BY <1>3, <1>4, <2>1 DEF BlockFields
<1>6. SameLayout(H, G)
  BY <1>4, <1>5 DEF SameLayout
<1>7. /\ BlocksOK(G, p.start, p.end) /\ Tiled(G, p.end) /\ KindsOK(G)
      /\ \A c \in DOMAIN H : EndOf(G, c) = EndOf(H, c)
  BY <1>2, <1>6, LayoutKept
<1>8. \A i : FreeIn(G, i) \ {a} = FreeIn(H, i)
  BY <1>4, <1>5 DEF FreeIn
<1>9. ListOK(G, p.free_list, {a})
  <2>1. Range(p.free_list) \subseteq DOMAIN H /\ DOMAIN p.free_list = 1 .. Len(p.free_list)
    BY <1>2 DEF ListOK, FreeIn
  <2>2. Ordered(G, p.free_list)
    BY <1>2, <1>7, <2>1, OrderKept DEF ListOK
  <2> QED
    BY <1>2, <1>8, <2>2 DEF ListOK
<1>10. BucketsOK(G, p.bucket_free_list, p.bucket_free, {a})
  BY <1>2, <1>8, BucketsWithout
<1>11. /\ DOMAIN C = DOMAIN B
       /\ \A b \in DOMAIN B : C[b] = IF b \in Payload(a, H[a].size) THEN Zero ELSE B[b]
  BY <1>3, FillFacts
<1>12. BytesOK(C, p.start, p.end)
  BY <1>2, <1>11 DEF BytesOK, Tags
<1>13. ASSUME NEW c \in DOMAIN H \ {a}, NEW b \in Payload(c, H[c].size) PROVE C[b] = B[b]
  <2>1. Payload(a, H[a].size) \cap Payload(c, H[c].size) = {}
    BY <1>2, <1>4, BlocksApart
  <2>2. b \in DOMAIN B
    BY <1>2, BlockFacts DEF BytesOK
  <2> QED
    BY <1>11, <2>1, <2>2
<1>14. Payload(a, H[a].size) \subseteq DOMAIN B
  BY <1>2, <1>4, BlockFacts DEF BytesOK
<1>15. Clean(G, C)
  <2> SUFFICES ASSUME NEW c \in DOMAIN G, ~ G[c].allocated, NEW b \in Payload(c, G[c].size)
               PROVE  C[b] \in {Zero, Junk}
    BY DEF Clean
  <2>1. CASE c = a
    BY <1>5, <1>11, <1>14, <2>1
  <2>2. CASE c # a
    BY <1>2, <1>5, <1>13, <2>2 DEF Clean
  <2> QED
    BY <2>1, <2>2
<1>16. ShapeOK(q, {a})
  BY <1>2, <1>3, <1>7, <1>9, <1>10, <1>12, <1>15 DEF ShapeOK, G, C
<1>17. AllocatedIn(G) = AllocatedIn(H) \ {a}
  BY <1>4, <1>5 DEF AllocatedIn
<1>18. Untouched(p, q, AllocatedIn(H) \ {a})
  <2> SUFFICES ASSUME NEW c \in AllocatedIn(H) \ {a}
               PROVE  /\ c \in DOMAIN G /\ G[c] = H[c]
                      /\ \A b \in Payload(c, H[c].size) : C[b] = B[b]
    BY DEF Untouched, H, G, B, C
  <2>1. c \in DOMAIN H \ {a}
    BY DEF AllocatedIn
  <2> QED
    BY <1>5, <1>13, <2>1
<1>19. OneMore(G, H, a)
  BY <1>4, <1>5, <1>17 DEF OneMore, AllocatedIn, H
<1>20. /\ Cardinality(Used(H, AllocatedIn(H))) = Cardinality(Used(G, AllocatedIn(G))) + H[a].size
       /\ Cardinality(Used(H, ListAllocated(H))) =
             Cardinality(Used(G, ListAllocated(G))) + (IF H[a].bucket = 0 THEN H[a].size ELSE 0)
       /\ Cardinality(Used(G, AllocatedIn(G))) \in Nat
  BY <1>2, <1>19, UsedWith
<1>21. q.total_used = Cardinality(Used(G, AllocatedIn(G)))
  <2>1. p.total_used = Cardinality(Used(H, AllocatedIn(H))) /\ H[a].size \in Nat
    BY <1>1, <1>2, <1>4, BlockFacts DEF CountersOK, H
  <2> QED
    BY <1>3, <1>20, <2>1 DEF Less
<1>22. q.fallback_used = Cardinality(Used(G, ListAllocated(G))) + (IF G[a].bucket = 0 THEN G[a].size ELSE 0)
  <2>1. p.fallback_used = Cardinality(Used(H, ListAllocated(H)))
    BY <1>1 DEF CountersOK, H
  <2> QED
    BY <1>3, <1>5, <1>20, <2>1
<1> QED
  BY <1>3, <1>4, <1>5, <1>16, <1>17, <1>18, <1>21, <1>22 DEF Unlinked, G, H

(* A block of a bucket goes back to its bucket *)
LEMMA FreeBucketOK ==
    ASSUME NEW p, NEW c, NEW a, Unlinked(p, c, a), c.headers[a].bucket # 0
    PROVE  Release(p, FreeBucket(c, a), a)
<1> DEFINE q == FreeBucket(c, a)
           H == c.headers
           i == H[a].bucket
           list == c.bucket_free_list[i]
<1>1. /\ ShapeOK(c, {a}) /\ c.end = p.end /\ a \in DOMAIN H /\ ~ H[a].allocated
      /\ AllocatedIn(H) = AllocatedIn(p.headers) \ {a} /\ Untouched(p, c, AllocatedIn(p.headers) \ {a})
      /\ CountersOK(c)
  <2>1. ListAllocated(H) \subseteq DOMAIN H /\ BlocksOK(H, c.start, c.end) /\ c.start \in Nat /\ c.end \in Nat
    BY ShapeParts DEF ListAllocated, AllocatedIn, Unlinked
  <2>2. Cardinality(Used(H, ListAllocated(H))) \in Nat
    BY <2>1, UsedFinite
  <2>3. c.fallback_used = Cardinality(Used(H, ListAllocated(H)))
    BY <2>2 DEF Unlinked
  <2> QED
    BY <2>3 DEF Unlinked, CountersOK
<1>2. /\ DOMAIN c = PoolFields /\ BlocksOK(H, c.start, c.end) /\ KindsOK(H)
      /\ ListOK(H, c.free_list, {a}) /\ BucketsOK(H, c.bucket_free_list, c.bucket_free, {a})
      /\ c.start \in Nat /\ c.end \in Nat
  BY <1>1, ShapeParts
<1>3. i \in UsedBuckets /\ a \in Nat /\ a \in FreeIn(H, i)
  <2>1. a \in Nat
    BY <1>1, <1>2, BlockFacts
  <2> QED
    BY <1>1, <1>2, <2>1 DEF KindsOK, FreeIn
<1>4. /\ DOMAIN q = PoolFields /\ q.initialized = c.initialized /\ q.start = c.start /\ q.end = c.end
      /\ q.headers = H /\ q.bytes = c.bytes /\ q.free_list = c.free_list
      /\ q.bucket_free_list = [c.bucket_free_list EXCEPT ![i] = <<a>> \o list]
      /\ q.bucket_free = [c.bucket_free EXCEPT ![i] = c.bucket_free[i] + 1]
      /\ q.total_used = c.total_used /\ q.fallback_used = c.fallback_used
  BY <1>2 DEF FreeBucket, PoolFields
<1>5. /\ BucketOK(H, i, list, c.bucket_free[i], {a})
      /\ DOMAIN c.bucket_free_list = UsedBuckets /\ DOMAIN c.bucket_free = UsedBuckets
  BY <1>2, <1>3 DEF BucketsOK
<1> HIDE DEF q, H, i, list
<1>6. list \in Seq(Nat) /\ Len(list) \in Nat /\ DOMAIN list = 1 .. Len(list)
  BY <1>5 DEF BucketOK
<1>7. IsInjective(list) /\ Range(list) = FreeIn(H, i) \ {a}
  BY <1>5 DEF BucketOK
<1> DEFINE new == <<a>> \o list
<1>8. q.bucket_free_list = [c.bucket_free_list EXCEPT ![i] = new]
  BY <1>4
<1>9. new \in Seq(Nat) /\ Len(new) = Len(list) + 1 /\ IsInjective(new) /\ Range(new) = FreeIn(H, i)
  <2>1. /\ new \in Seq(Nat) /\ Len(new) = Len(list) + 1 /\ IsInjective(new)
        /\ Range(new) = Range(list) \cup {a}
    BY <1>3, <1>6, <1>7, ConsList
  <2> QED
    BY <1>3, <1>7, <2>1
<1> HIDE DEF new
<1>13. BucketsOK(H, q.bucket_free_list, q.bucket_free, {})
  <2>1. DOMAIN q.bucket_free_list = UsedBuckets /\ DOMAIN q.bucket_free = UsedBuckets
    BY <1>4, <1>5
  <2>2. BucketOK(H, i, q.bucket_free_list[i], q.bucket_free[i], {})
    <3>1. q.bucket_free_list[i] = new /\ q.bucket_free[i] = Len(new)
      <4>1. c.bucket_free[i] = Len(list)
        BY <1>5 DEF BucketOK
      <4> QED
        BY <1>3, <1>4, <1>5, <1>8, <1>9, <4>1
    <3> QED
      BY <1>9, <3>1 DEF BucketOK
  <2>3. ASSUME NEW j \in UsedBuckets, j # i
        PROVE  BucketOK(H, j, q.bucket_free_list[j], q.bucket_free[j], {})
    <3>1. q.bucket_free_list[j] = c.bucket_free_list[j] /\ q.bucket_free[j] = c.bucket_free[j]
      BY <1>4, <1>5, <2>3
    <3>2. BucketOK(H, j, c.bucket_free_list[j], c.bucket_free[j], {a})
      BY <1>2, <2>3 DEF BucketsOK
    <3>3. FreeIn(H, j) \ {a} = FreeIn(H, j)
      BY <1>3, <2>3 DEF FreeIn
    <3> QED
      BY <3>1, <3>2, <3>3 DEF BucketOK
  <2> QED
    BY <2>1, <2>2, <2>3 DEF BucketsOK
<1>14. ListOK(H, c.free_list, {})
  <2>1. FreeIn(H, 0) \ {a} = FreeIn(H, 0)
    BY DEF FreeIn, H, i
  <2> QED
    BY <1>2, <2>1 DEF ListOK
<1>15. ShapeOK(q, {})
  BY <1>1, <1>4, <1>13, <1>14 DEF ShapeOK, H
<1>16. PoolOK(q)
  BY <1>1, <1>4, <1>15 DEF PoolOK, CountersOK, H
<1>17. Untouched(p, q, AllocatedIn(p.headers) \ {a})
  BY <1>1, <1>4 DEF Untouched, H
<1>18. Release(p, q, a)
  BY <1>1, <1>4, <1>16, <1>17 DEF Release
<1> QED
  BY <1>18 DEF q

(* InsertOrdered: the list with the new block in its place *)
Rising(f) == \A k, m \in 1 .. Len(f) : k < m => f[k] < f[m]

LEMMA InsertedOK ==
    ASSUME NEW f \in Seq(Nat), NEW a \in Nat, Rising(f), a \notin Range(f)
    PROVE  /\ InsertOrdered(f, a) \in Seq(Nat) /\ Rising(InsertOrdered(f, a))
           /\ Range(InsertOrdered(f, a)) = Range(f) \cup {a}
<1> DEFINE K == { k \in 1 .. Len(f) + 1 : k > Len(f) \/ f[k] >= a }
           k == Min(K)
           g == InsertAt(f, k, a)
<1>1. Len(f) \in Nat /\ DOMAIN f = 1 .. Len(f) /\ \A j \in 1 .. Len(f) : f[j] \in Nat /\ f[j] # a
  BY DEF Range
<1>2. k \in K /\ \A j \in K : k <= j
  <2>1. Len(f) + 1 \in K /\ K \subseteq Nat
    BY <1>1
  <2> QED
    BY <2>1, LeastOf
<1>3. k \in 1 .. Len(f) + 1 /\ (k > Len(f) \/ f[k] >= a)
  BY <1>2
<1>4. \A j \in 1 .. Len(f) : j < k => f[j] < a
  <2> SUFFICES ASSUME NEW j \in 1 .. Len(f), j < k, ~ (f[j] < a) PROVE FALSE
    OBVIOUS
  <2>1. j \in K
    BY <1>1
  <2> QED
    BY <1>2, <1>3, <2>1
<1> HIDE DEF k, K
<1>5. \A j \in 1 .. Len(f) : k <= j => a < f[j]
  <2> SUFFICES ASSUME NEW j \in 1 .. Len(f), k <= j PROVE a < f[j]
    OBVIOUS
  <2>1. k \in 1 .. Len(f) /\ f[k] \in Nat /\ f[k] # a /\ f[k] >= a /\ f[j] \in Nat
    BY <1>1, <1>3
  <2>2. k = j \/ f[k] < f[j]
    BY <1>3, <2>1 DEF Rising
  <2> QED
    BY <2>1, <2>2
<1>6. /\ g \in Seq(Nat) /\ Len(g) = Len(f) + 1
      /\ \A j \in 1 .. Len(f) + 1 : g[j] = IF j < k THEN f[j] ELSE IF j = k THEN a ELSE f[j - 1]
  BY <1>3, InsertFacts
<1>7. InsertOrdered(f, a) = g
  BY DEF InsertOrdered, k, K
<1> HIDE DEF g
<1>8. DOMAIN g = 1 .. Len(f) + 1
  BY <1>1, <1>6
<1>9. Rising(g)
  <2> SUFFICES ASSUME NEW j \in 1 .. Len(f) + 1, NEW m \in 1 .. Len(f) + 1, j < m PROVE g[j] < g[m]
    BY <1>6 DEF Rising
  <2>1. CASE m < k
    <3>1. j \in 1 .. Len(f) /\ m \in 1 .. Len(f) /\ g[j] = f[j] /\ g[m] = f[m]
      BY <1>1, <1>3, <1>6, <2>1
    <3> QED
      BY <3>1 DEF Rising
  <2>2. CASE m = k
    <3>1. j \in 1 .. Len(f) /\ j < k /\ g[j] = f[j] /\ g[m] = a
      BY <1>1, <1>3, <1>6, <2>2
    <3> QED
      BY <1>4, <3>1
  <2>3. CASE k < m
    <3>1. m - 1 \in 1 .. Len(f) /\ k <= m - 1 /\ g[m] = f[m - 1]
      BY <1>1, <1>3, <1>6, <2>3
    <3>2. CASE j < k
      <4>1. j \in 1 .. Len(f) /\ g[j] = f[j] /\ j < m - 1
        BY <1>1, <1>3, <1>6, <2>3, <3>2
      <4> QED
        BY <3>1, <4>1 DEF Rising
    <3>3. CASE j = k
      BY <1>5, <1>6, <3>1, <3>3
    <3>4. CASE k < j
      <4>1. j - 1 \in 1 .. Len(f) /\ g[j] = f[j - 1] /\ j - 1 < m - 1
        BY <1>1, <1>3, <1>6, <3>4
      <4> QED
        BY <3>1, <4>1 DEF Rising
    <3> QED
      BY <1>3, <3>2, <3>3, <3>4
  <2> QED
    BY <1>3, <2>1, <2>2, <2>3
<1>10. ASSUME NEW x \in Range(g) PROVE x \in Range(f) \cup {a}
  <2>1. PICK j \in 1 .. Len(f) + 1 : x = g[j]
    BY <1>8, <1>10 DEF Range
  <2>2. CASE j < k
    <3>1. j \in 1 .. Len(f) /\ x = f[j]
      BY <1>1, <1>3, <1>6, <2>1, <2>2
    <3> QED
      BY <1>1, <3>1 DEF Range
  <2>3. CASE j = k
    BY <1>6, <2>1, <2>3
  <2>4. CASE k < j
    <3>1. j - 1 \in 1 .. Len(f) /\ x = f[j - 1]
      BY <1>1, <1>3, <1>6, <2>1, <2>4
    <3> QED
      BY <1>1, <3>1 DEF Range
  <2> QED
    BY <1>3, <2>2, <2>3, <2>4
<1>11. ASSUME NEW x \in Range(f) \cup {a} PROVE x \in Range(g)
  <2>1. CASE x = a
    <3>1. k \in DOMAIN g /\ g[k] = a
      BY <1>3, <1>6, <1>8
    <3> QED
      BY <2>1, <3>1 DEF Range
  <2>2. CASE x \in Range(f)
    <3>1. PICK j \in 1 .. Len(f) : x = f[j]
      BY <1>1, <2>2 DEF Range
    <3>2. CASE j < k
      <4>1. j \in DOMAIN g /\ g[j] = x
        BY <1>1, <1>6, <1>8, <3>1, <3>2
      <4> QED
        BY <4>1 DEF Range
    <3>3. CASE ~ (j < k)
      <4>1. j + 1 \in DOMAIN g /\ ~ (j + 1 < k) /\ j + 1 # k /\ j + 1 - 1 = j
        BY <1>1, <1>3, <1>8, <3>3
      <4>2. g[j + 1] = x
        BY <1>6, <1>8, <3>1, <4>1
      <4> QED
        BY <4>1, <4>2 DEF Range
    <3> QED
      BY <3>2, <3>3
  <2> QED
    BY <1>11, <2>1, <2>2
<1> QED
  BY <1>6, <1>7, <1>9, <1>10, <1>11

(* The loop of noxtls_mem_coalesce_fallback is well defined *)
LEMMA CoalesceDef ==
    ASSUME NEW p, NEW list, Len(list) \in Nat
    PROVE  Coalesce(p, list) =
               [n \in 0 .. Len(list) |->
                   IF n = 0 THEN [p EXCEPT !.free_list = << >>]
                   ELSE Merge(Coalesce(p, list)[n - 1], list[n])]
<1> DEFINE top == Len(list)
           first == [p EXCEPT !.free_list = << >>]
           Follows(g, m) == g = [n \in 0 .. m |-> IF n = 0 THEN first ELSE Merge(g[n - 1], list[n])]
           Has == { m \in Nat : \E g : Follows(g, m) }
<1> HIDE DEF first
<1>1. 0 \in Has
  <2> DEFINE g == [n \in 0 .. 0 |-> first]
  <2>1. Follows(g, 0)
    OBVIOUS
  <2> QED
    BY <2>1
<1>2. ASSUME NEW m \in 0 .. top, m \in Has PROVE m + 1 \in Has
  <2>1. PICK g : Follows(g, m)
    BY <1>2
  <2> DEFINE h == [n \in 0 .. m + 1 |-> IF n = m + 1 THEN Merge(g[m], list[m + 1]) ELSE g[n]]
  <2>2. \A n \in 0 .. m : g[n] = IF n = 0 THEN first ELSE Merge(g[n - 1], list[n])
    BY <2>1
  <2>3. Follows(h, m + 1)
    <3>1. ASSUME NEW n \in 0 .. m + 1
          PROVE  h[n] = IF n = 0 THEN first ELSE Merge(h[n - 1], list[n])
      <4>1. CASE n = m + 1
        BY <4>1
      <4>2. CASE n \in 0 .. m
        <5>1. h[n] = g[n] /\ (n # 0 => h[n - 1] = g[n - 1])
          BY <4>2
        <5> QED
          BY <5>1, <4>2, <2>2
      <4> QED
        BY <4>1, <4>2
    <3> HIDE DEF h
    <3>2. h = [n \in 0 .. m + 1 |-> h[n]]
      BY DEF h
    <3> QED
      BY <3>1, <3>2
  <2> HIDE DEF Follows, h
  <2> QED
    BY <2>3
<1>3. top \in Has
  <2> HIDE DEF Has
  <2>1. 0 .. top \subseteq Has
    BY <1>1, <1>2, Climb
  <2> QED
    BY <2>1
<1>4. PICK g : Follows(g, top)
  BY <1>3
<1>5. Coalesce(p, list) = CHOOSE turns : Follows(turns, top)
  BY DEF Coalesce, first
<1>6. Follows(Coalesce(p, list), top)
  BY <1>4, <1>5
<1> QED
  BY <1>6 DEF first

(* The headers after a merge: the block a, behind front, is part of it *)
Joined(H, front, a, G) ==
    /\ front \in DOMAIN H /\ ~ H[front].allocated /\ H[front].bucket = 0
    /\ a \in DOMAIN H /\ ~ H[a].allocated /\ H[a].bucket = 0
    /\ EndOf(H, front) = a
    /\ G = [b \in DOMAIN H \ {a} |->
               IF b = front THEN [H[b] EXCEPT !.size = H[front].size + HeaderSize + H[a].size]
               ELSE H[b]]

AsOne(H, front, a, G) ==
    /\ front < a /\ DOMAIN G = DOMAIN H \ {a}
    /\ \A c \in DOMAIN H \ {a, front} : G[c] = H[c] /\ EndOf(G, c) = EndOf(H, c)
    /\ ~ G[front].allocated /\ G[front].bucket = 0 /\ EndOf(G, front) = EndOf(H, a)
    /\ Payload(front, G[front].size) \subseteq
          Payload(front, H[front].size) \cup HeaderBytes(a) \cup Payload(a, H[a].size)

LEMMA MergeLayout ==
    ASSUME NEW H, NEW lo \in Nat, NEW hi \in Nat, BlocksOK(H, lo, hi), Tiled(H, hi), KindsOK(H),
           NEW front, NEW a, NEW G, Joined(H, front, a, G)
    PROVE  BlocksOK(G, lo, hi) /\ Tiled(G, hi) /\ KindsOK(G) /\ AsOne(H, front, a, G)
<1> USE DEF Joined
<1>1. /\ front \in Nat /\ H[front].size \in Nat \ {0} /\ EndOf(H, front) = front + HeaderSize + H[front].size
      /\ a \in Nat /\ H[a].size \in Nat \ {0} /\ EndOf(H, a) = a + HeaderSize + H[a].size
      /\ lo <= front /\ EndOf(H, a) <= hi /\ front < a /\ a < EndOf(H, a)
      /\ HeaderSize \in Nat \ {0}
  BY BlockFacts, Constants
<1>2. DOMAIN H[front] = BlockFields /\ H[front].allocated \in BOOLEAN /\ Aligned(front + HeaderSize)
  BY DEF BlocksOK, IsBlock
<1>3. /\ DOMAIN G = DOMAIN H \ {a}
      /\ \A c \in DOMAIN H \ {a, front} : G[c] = H[c]
      /\ G[front] = [H[front] EXCEPT !.size = H[front].size + HeaderSize + H[a].size]
  BY <1>1
<1>4. /\ DOMAIN G[front] = BlockFields /\ G[front].size = H[front].size + HeaderSize + H[a].size
      /\ ~ G[front].allocated /\ G[front].bucket = 0 /\ G[front].allocated \in BOOLEAN
  BY <1>2, <1>3 DEF BlockFields
<1>5. EndOf(G, front) = EndOf(H, a)
  BY <1>1, <1>4 DEF EndOf
<1>6. \A c \in DOMAIN H \ {a, front} : EndOf(G, c) = EndOf(H, c)
  BY <1>3 DEF EndOf
<1>7. /\ Payload(front, G[front].size) \subseteq
            Payload(front, H[front].size) \cup HeaderBytes(a) \cup Payload(a, H[a].size)
  BY <1>1, <1>4 DEF Payload, HeaderBytes
<1>8. AsOne(H, front, a, G)
  BY <1>1, <1>3, <1>4, <1>5, <1>6, <1>7 DEF AsOne
<1>9. \A x \in DOMAIN H : x \in Nat /\ EndOf(H, x) \in Nat /\ x < EndOf(H, x)
  BY BlockFacts
<1>10. \A x, y \in DOMAIN H : x < y => EndOf(H, x) <= y
  BY DEF BlocksOK
<1>11. ASSUME NEW c \in DOMAIN G
       PROVE  c \in Nat /\ IsBlock(G[c]) /\ lo <= c /\ EndOf(G, c) <= hi /\ Aligned(c + HeaderSize)
  <2>1. CASE c = front
    <3>1. G[front].size \in Nat \ {0}
      BY <1>1, <1>4
    <3>2. IsBlock(G[front])
      BY <1>4, <3>1 DEF IsBlock
    <3> QED
      BY <1>1, <1>2, <1>5, <2>1, <3>2
  <2>2. CASE c # front
    BY <1>3, <1>6, <2>2 DEF BlocksOK
  <2> QED
    BY <2>1, <2>2
<1>12. ASSUME NEW c \in DOMAIN G, NEW d \in DOMAIN G, c < d PROVE EndOf(G, c) <= d
  <2>1. c \in DOMAIN H /\ d \in DOMAIN H /\ c # a /\ d # a
    BY <1>3
  <2>2. CASE c = front
    <3>1. EndOf(H, front) <= d
      BY <1>10, <1>12, <2>1, <2>2
    <3>2. a < d
      BY <1>1, <1>9, <2>1, <3>1
    <3> QED
      BY <1>5, <1>10, <2>1, <2>2, <3>2
  <2>3. CASE c # front
    BY <1>6, <1>10, <1>12, <2>1, <2>3
  <2> QED
    BY <2>2, <2>3
<1>13. BlocksOK(G, lo, hi)
  BY <1>11, <1>12 DEF BlocksOK
<1>14. Tiled(G, hi)
  <2> SUFFICES ASSUME NEW c \in DOMAIN G, G[c].bucket = 0 PROVE EndOf(G, c) \in DOMAIN G \cup {hi}
    BY DEF Tiled
  <2>1. \A x \in DOMAIN H : H[x].bucket = 0 => EndOf(H, x) \in DOMAIN H \cup {hi}
    BY DEF Tiled
  <2>2. CASE c = front
    <3>1. EndOf(H, a) \in DOMAIN H \cup {hi} /\ EndOf(H, a) # a
      BY <1>1, <2>1
    <3> QED
      BY <1>3, <1>5, <2>2, <3>1
  <2>3. CASE c # front
    <3>1. c \in DOMAIN H \ {a, front} /\ H[c].bucket = 0
      BY <1>3, <2>3
    <3>2. EndOf(H, c) # a
      <4>1. SUFFICES ASSUME EndOf(H, c) = a PROVE FALSE
        OBVIOUS
      <4>2. c \in Nat /\ c < a
        BY <1>9, <3>1, <4>1
      <4>3. CASE c < front
        <5>1. EndOf(H, c) <= front
          BY <1>10, <3>1, <4>3
        <5>2. a <= front
          BY <4>1, <5>1
        <5> QED
          BY <1>1, <5>2
      <4>4. CASE front < c
        <5>1. EndOf(H, front) <= c
          BY <1>10, <3>1, <4>4
        <5> QED
          BY <1>1, <4>2, <5>1
      <4> QED
        BY <1>1, <3>1, <4>2, <4>3, <4>4
    <3>3. EndOf(H, c) \in DOMAIN H \cup {hi}
      BY <2>1, <3>1
    <3> QED
      BY <1>3, <1>6, <3>1, <3>2, <3>3
  <2> QED
    BY <2>2, <2>3
<1>15. KindsOK(G)
  <2>1. \A c \in DOMAIN G : c \in DOMAIN H /\ G[c].bucket = H[c].bucket
    BY <1>3, <1>4
  <2> QED
    BY <1>3, <2>1 DEF KindsOK
<1> QED
  BY <1>8, <1>13, <1>14, <1>15

(* After some turns of the loop over the free blocks of c: the blocks S are *)
(* still to come, M holds the others.                                       *)
TurnOK(c, M, S) ==
    /\ ShapeOK(M, S) /\ M.end = c.end /\ S \subseteq FreeIn(M.headers, 0)
    /\ \A x \in Range(M.free_list), y \in S : x < y
    /\ AllocatedIn(M.headers) = AllocatedIn(c.headers) /\ Untouched(c, M, AllocatedIn(c.headers))
    /\ M.total_used = c.total_used /\ M.fallback_used = c.fallback_used

LEMMA AppendFacts ==
    ASSUME NEW f \in Seq(Nat), NEW a \in Nat
    PROVE  /\ Append(f, a) \in Seq(Nat) /\ Len(Append(f, a)) = Len(f) + 1 /\ Len(f) \in Nat
           /\ DOMAIN f = 1 .. Len(f) /\ DOMAIN Append(f, a) = 1 .. Len(f) + 1
           /\ Append(f, a)[Len(f) + 1] = a /\ \A k \in 1 .. Len(f) : Append(f, a)[k] = f[k]
  OBVIOUS

(* A turn that links the block at the end of the list *)
LEMMA LinkTurn ==
    ASSUME NEW c, NEW M, NEW S, TurnOK(c, M, S), NEW a \in S, \A y \in S \ {a} : a < y,
           M.free_list # << >> => EndOf(M.headers, Last(M.free_list)) # a
    PROVE  TurnOK(c, [M EXCEPT !.free_list = Append(@, a)], S \ {a})
<1> DEFINE N == [M EXCEPT !.free_list = Append(@, a)]
           H == M.headers
           f == M.free_list
           g == Append(f, a)
<1>1. /\ ShapeOK(M, S) /\ S \subseteq FreeIn(H, 0) /\ \A x \in Range(f), y \in S : x < y
  BY DEF TurnOK
<1>2. /\ DOMAIN M = PoolFields /\ M.start \in Nat /\ M.end \in Nat
      /\ BlocksOK(H, M.start, M.end) /\ ListOK(H, f, S)
      /\ BucketsOK(H, M.bucket_free_list, M.bucket_free, S)
  BY <1>1, ShapeParts
<1>3. /\ DOMAIN N = PoolFields /\ N.initialized = M.initialized /\ N.start = M.start /\ N.end = M.end
      /\ N.headers = H /\ N.bytes = M.bytes /\ N.free_list = g
      /\ N.bucket_free_list = M.bucket_free_list /\ N.bucket_free = M.bucket_free
      /\ N.total_used = M.total_used /\ N.fallback_used = M.fallback_used
  BY <1>2 DEF PoolFields
<1>4. a \in FreeIn(H, 0) /\ a \in DOMAIN H /\ a \in Nat
  <2>1. a \in FreeIn(H, 0) /\ a \in DOMAIN H
    BY <1>1 DEF FreeIn
  <2> QED
    BY <1>2, <2>1, BlockFacts
<1> HIDE DEF H, f, N
<1>5. /\ f \in Seq(Nat) /\ Len(f) \in Nat /\ DOMAIN f = 1 .. Len(f)
      /\ \A k \in 1 .. Len(f) : f[k] \in DOMAIN H /\ f[k] \in Nat
      /\ \A k, m \in 1 .. Len(f) : k < m => EndOf(H, f[k]) < f[m] /\ f[k] < f[m]
  <2>1. /\ f \in Seq(Nat) /\ Len(f) \in Nat /\ DOMAIN f = 1 .. Len(f)
        /\ \A k \in 1 .. Len(f) : f[k] \in DOMAIN H
        /\ \A k, m \in 1 .. Len(f) : k < m => EndOf(H, f[k]) < f[m] /\ f[k] < f[m]
    BY <1>2, ListFacts
  <2> QED
    BY <2>1
<1>6. /\ g \in Seq(Nat) /\ Len(g) = Len(f) + 1 /\ DOMAIN g = 1 .. Len(f) + 1
      /\ g[Len(f) + 1] = a /\ \A k \in 1 .. Len(f) : g[k] = f[k]
  BY <1>4, <1>5, AppendFacts
<1> HIDE DEF g
<1> DEFINE n == Len(f)
<1>60. n \in Nat
  BY <1>5
<1> HIDE DEF n
<1>61. \A k \in 1 .. n : k # n => n \in 1 .. n /\ k < n
  BY <1>60
<1>62. \A k \in 1 .. n + 1 : k # n + 1 => k \in 1 .. n
  BY <1>60
<1>7. \A k \in 1 .. Len(f) : f[k] < a /\ EndOf(H, f[k]) <= a /\ EndOf(H, f[k]) \in Nat
  <2> SUFFICES ASSUME NEW k \in 1 .. Len(f)
               PROVE  f[k] < a /\ EndOf(H, f[k]) <= a /\ EndOf(H, f[k]) \in Nat
    OBVIOUS
  <2>1. f[k] < a
    BY <1>1, <1>5 DEF Range
  <2>2. f[k] \in DOMAIN H
    BY <1>5
  <2>3. EndOf(H, f[k]) \in Nat
    BY <1>2, <2>2, BlockFacts
  <2>4. EndOf(H, f[k]) <= a
    BY <1>2, <1>4, <2>1, <2>2 DEF BlocksOK
  <2> QED
    BY <2>1, <2>3, <2>4
<1>8. \A k \in 1 .. Len(f) : EndOf(H, f[k]) < a
  <2> SUFFICES ASSUME NEW k \in 1 .. Len(f) PROVE EndOf(H, f[k]) < a
    OBVIOUS
  <2>1. CASE k = Len(f)
    <3>1. f # << >> /\ Last(f) = f[k]
      BY <1>5, <2>1 DEF Last
    <3>2. EndOf(H, f[k]) # a
      BY <3>1 DEF H, f
    <3> QED
      BY <1>4, <1>7, <3>2
  <2>2. CASE k # Len(f)
    <3>1. Len(f) \in 1 .. Len(f) /\ k < Len(f)
      BY <1>61, <2>2 DEF n
    <3>2. EndOf(H, f[k]) < f[Len(f)] /\ f[Len(f)] < a /\ f[Len(f)] \in Nat /\ EndOf(H, f[k]) \in Nat
      BY <1>5, <1>7, <3>1
    <3> QED
      BY <1>4, <3>2
  <2> QED
    BY <2>1, <2>2
<1>9. Ordered(H, g)
  <2> SUFFICES ASSUME NEW k \in 1 .. Len(f) + 1, NEW m \in 1 .. Len(f) + 1, k < m
               PROVE  EndOf(H, g[k]) < g[m]
    BY <1>6 DEF Ordered
  <2>1. k \in 1 .. Len(f) /\ g[k] = f[k]
    BY <1>5, <1>6
  <2>2. CASE m = Len(f) + 1
    BY <1>6, <1>8, <2>1, <2>2
  <2>3. CASE m # Len(f) + 1
    <3>1. m \in 1 .. Len(f)
      BY <1>62, <2>3 DEF n
    <3>2. g[m] = f[m]
      BY <1>6, <3>1
    <3> QED
      BY <1>5, <2>1, <3>1, <3>2
  <2> QED
    BY <2>2, <2>3
<1>10. Range(g) = Range(f) \cup {a}
  <2>1. ASSUME NEW x \in Range(g) PROVE x \in Range(f) \cup {a}
    <3>1. PICK k \in 1 .. Len(f) + 1 : x = g[k]
      BY <1>6, <2>1 DEF Range
    <3>2. CASE k = Len(f) + 1
      BY <1>6, <3>1, <3>2
    <3>3. CASE k # Len(f) + 1
      <4>1. k \in 1 .. Len(f) /\ x = f[k]
        BY <1>5, <1>6, <3>1, <3>3
      <4> QED
        BY <1>5, <4>1 DEF Range
    <3> QED
      BY <3>2, <3>3
  <2>2. ASSUME NEW x \in Range(f) PROVE x \in Range(g)
    <3>1. PICK k \in 1 .. Len(f) : x = f[k]
      BY <1>5, <2>2 DEF Range
    <3>2. k \in DOMAIN g /\ g[k] = x
      BY <1>5, <1>6, <3>1
    <3> QED
      BY <3>2 DEF Range
  <2>3. a \in Range(g)
    <3>1. Len(f) + 1 \in DOMAIN g
      BY <1>5, <1>6
    <3> QED
      BY <1>6, <3>1 DEF Range
  <2> QED
    BY <2>1, <2>2, <2>3
<1>11. ListOK(H, g, S \ {a})
  <2>1. Range(f) = FreeIn(H, 0) \ S
    BY <1>2 DEF ListOK
  <2>2. Range(g) = FreeIn(H, 0) \ (S \ {a})
    BY <1>4, <1>10, <2>1
  <2> QED
    BY <1>6, <1>9, <2>2 DEF ListOK
<1>12. BucketsOK(H, M.bucket_free_list, M.bucket_free, S \ {a})
  <2>1. \A i \in UsedBuckets : FreeIn(H, i) \ (S \ {a}) = FreeIn(H, i) \ S
    <3>1. \A i \in UsedBuckets : i # 0
      BY BucketFacts DEF UsedBuckets
    <3> QED
      BY <1>4, <3>1 DEF FreeIn
  <2> QED
    BY <1>2, <2>1 DEF BucketsOK, BucketOK
<1>13. ShapeOK(N, S \ {a})
  BY <1>1, <1>3, <1>11, <1>12 DEF ShapeOK, H
<1>14. \A x \in Range(g), y \in S \ {a} : x < y
  BY <1>1, <1>10
<1>15. TurnOK(c, N, S \ {a})
  BY <1>1, <1>3, <1>13, <1>14 DEF TurnOK, Untouched, H
<1> QED
  BY <1>15 DEF N

(* A turn that merges it with the last block of the list *)
LEMMA JoinTurn ==
    ASSUME NEW c, NEW M, NEW S, TurnOK(c, M, S), NEW a \in S, \A y \in S \ {a} : a < y,
           M.free_list # << >>, EndOf(M.headers, Last(M.free_list)) = a
    PROVE  TurnOK(c, Merge(M, a), S \ {a})
<1> DEFINE N == Merge(M, a)
           H == M.headers
           f == M.free_list
           front == Last(f)
           G == N.headers
           B == M.bytes
           C == N.bytes
<1>1. /\ ShapeOK(M, S) /\ S \subseteq FreeIn(H, 0) /\ \A x \in Range(f), y \in S : x < y
      /\ AllocatedIn(H) = AllocatedIn(c.headers) /\ Untouched(c, M, AllocatedIn(H))
  BY DEF TurnOK
<1>2. /\ DOMAIN M = PoolFields /\ M.start \in Nat /\ M.end \in Nat
      /\ BlocksOK(H, M.start, M.end) /\ Tiled(H, M.end) /\ KindsOK(H) /\ ListOK(H, f, S)
      /\ BucketsOK(H, M.bucket_free_list, M.bucket_free, S)
      /\ BytesOK(B, M.start, M.end) /\ Clean(H, B)
  BY <1>1, ShapeParts
<1>3. /\ DOMAIN N = PoolFields /\ N.initialized = M.initialized /\ N.start = M.start /\ N.end = M.end
      /\ G = [b \in DOMAIN H \ {a} |->
                IF b = front THEN [H[b] EXCEPT !.size = H[front].size + HeaderSize + H[a].size]
                ELSE H[b]]
      /\ C = Fill(B, HeaderBytes(a), Zero) /\ N.free_list = f
      /\ N.bucket_free_list = M.bucket_free_list /\ N.bucket_free = M.bucket_free
      /\ N.total_used = M.total_used /\ N.fallback_used = M.fallback_used
  <2>1. N = [M EXCEPT
               !.headers = [b \in DOMAIN H \ {a} |->
                              IF b = front
                              THEN [H[b] EXCEPT !.size = H[front].size + HeaderSize + H[a].size]
                              ELSE H[b]],
               !.bytes = Fill(B, HeaderBytes(a), Zero)]
    BY DEF Merge
  <2> HIDE DEF N
  <2> QED
    BY <1>2, <2>1 DEF PoolFields
<1> HIDE DEF H, f, G, B, C, N, front
<1>4. /\ f \in Seq(Nat) /\ Len(f) \in Nat /\ DOMAIN f = 1 .. Len(f)
      /\ \A k \in 1 .. Len(f) : f[k] \in DOMAIN H
      /\ \A k, m \in 1 .. Len(f) : f[k] = f[m] => k = m
  BY <1>2, ListFacts
<1>5. f # << >> /\ EndOf(H, front) = a
  BY DEF f, H, front
<1>6. Len(f) \in 1 .. Len(f) /\ front = f[Len(f)]
  BY <1>4, <1>5 DEF front, Last
<1>7. Range(f) = FreeIn(H, 0) \ S /\ front \in Range(f)
  BY <1>2, <1>4, <1>6 DEF ListOK, Range
<1>8. a \in DOMAIN H /\ ~ H[a].allocated /\ H[a].bucket = 0
  BY <1>1 DEF FreeIn
<1>9. front \in DOMAIN H /\ ~ H[front].allocated /\ H[front].bucket = 0
  BY <1>7 DEF FreeIn
<1>10. BlocksOK(G, M.start, M.end) /\ Tiled(G, M.end) /\ KindsOK(G) /\ AsOne(H, front, a, G)
  <2>1. Joined(H, front, a, G)
    BY <1>3, <1>5, <1>8, <1>9 DEF Joined
  <2> QED
    BY <1>2, <2>1, MergeLayout
<1>11. FreeIn(G, 0) = FreeIn(H, 0) \ {a} /\ \A i \in UsedBuckets : FreeIn(G, i) = FreeIn(H, i)
  <2>1. \A i \in UsedBuckets : i # 0
    BY BucketFacts DEF UsedBuckets
  <2>2. \A x \in DOMAIN G : x \in DOMAIN H /\ x # a /\ G[x].bucket = H[x].bucket
                            /\ (G[x].allocated <=> H[x].allocated)
    BY <1>9, <1>10 DEF AsOne
  <2>3. DOMAIN G = DOMAIN H \ {a}
    BY <1>10 DEF AsOne
  <2> QED
    BY <1>8, <2>1, <2>2, <2>3 DEF FreeIn
<1>12. ListOK(G, f, S \ {a})
  <2>1. Ordered(G, f)
    <3> SUFFICES ASSUME NEW k \in 1 .. Len(f), NEW m \in 1 .. Len(f), k < m
                 PROVE  EndOf(G, f[k]) < f[m]
      BY DEF Ordered
    <3>1. f[k] # front
      BY <1>4, <1>6
    <3>2. f[k] \in DOMAIN H /\ f[k] # a
      <4>1. f[k] \in Range(f)
        BY <1>4 DEF Range
      <4> QED
        BY <1>4, <1>7, <4>1
    <3>3. EndOf(G, f[k]) = EndOf(H, f[k])
      BY <1>10, <3>1, <3>2 DEF AsOne
    <3> QED
      BY <1>2, <3>3 DEF ListOK, Ordered
  <2>2. Range(f) = FreeIn(G, 0) \ (S \ {a})
    BY <1>7, <1>11
  <2> QED
    BY <1>4, <2>1, <2>2 DEF ListOK
<1>13. BucketsOK(G, M.bucket_free_list, M.bucket_free, S \ {a})
  <2>1. \A i \in UsedBuckets : FreeIn(G, i) \ (S \ {a}) = FreeIn(H, i) \ S
    <3>1. \A i \in UsedBuckets : i # 0
      BY BucketFacts DEF UsedBuckets
    <3>2. \A i \in UsedBuckets : a \notin FreeIn(H, i)
      BY <1>8, <3>1 DEF FreeIn
    <3> QED
      BY <1>11, <3>2
  <2> QED
    BY <1>2, <2>1 DEF BucketsOK, BucketOK
<1>14. /\ DOMAIN C = DOMAIN B
       /\ \A b \in DOMAIN B : C[b] = IF b \in HeaderBytes(a) THEN Zero ELSE B[b]
  BY <1>3, FillFacts
<1>15. BytesOK(C, M.start, M.end)
  BY <1>2, <1>14 DEF BytesOK, Tags
<1>16. ASSUME NEW x \in DOMAIN H \ {a}, NEW b \in Payload(x, H[x].size) PROVE C[b] = B[b]
  <2>1. Payload(x, H[x].size) \cap HeaderBytes(a) = {}
    BY <1>2, <1>8, BlocksApart
  <2>2. b \in DOMAIN B
    BY <1>2, BlockFacts DEF BytesOK
  <2> QED
    BY <1>14, <2>1, <2>2
<1>17. Clean(G, C)
  <2> SUFFICES ASSUME NEW x \in DOMAIN G, ~ G[x].allocated, NEW b \in Payload(x, G[x].size)
               PROVE  C[b] \in {Zero, Junk}
    BY DEF Clean
  <2>1. \A y \in DOMAIN H : ~ H[y].allocated => \A z \in Payload(y, H[y].size) : B[z] \in {Zero, Junk}
    BY <1>2 DEF Clean
  <2>2. x \in DOMAIN H \ {a}
    BY <1>10 DEF AsOne
  <2>3. CASE x # front
    BY <1>10, <1>16, <2>1, <2>2, <2>3 DEF AsOne
  <2>4. CASE x = front
    <3>1. Payload(a, H[a].size) \subseteq DOMAIN B /\ HeaderBytes(a) \subseteq DOMAIN B
      BY <1>2, <1>8, BlockFacts DEF BytesOK
    <3>2. b \in Payload(front, H[front].size) \/ b \in HeaderBytes(a) \/ b \in Payload(a, H[a].size)
      BY <1>10, <2>4 DEF AsOne
    <3>3. CASE b \in Payload(front, H[front].size)
      BY <1>9, <1>16, <2>1, <2>2, <2>4, <3>3
    <3>4. CASE b \in HeaderBytes(a)
      BY <1>14, <3>1, <3>4
    <3>5. CASE b \in Payload(a, H[a].size) /\ b \notin HeaderBytes(a)
      BY <1>8, <1>14, <2>1, <3>1, <3>5
    <3> QED
      BY <3>2, <3>3, <3>4, <3>5
  <2> QED
    BY <2>3, <2>4
<1>18. ShapeOK(N, S \ {a})
  BY <1>1, <1>3, <1>10, <1>12, <1>13, <1>15, <1>17 DEF ShapeOK, G, C
<1>19. AllocatedIn(G) = AllocatedIn(H)
  BY <1>8, <1>9, <1>10 DEF AsOne, AllocatedIn
<1>20. Untouched(c, N, AllocatedIn(H))
  <2> SUFFICES ASSUME NEW x \in AllocatedIn(H)
               PROVE  /\ x \in DOMAIN G /\ G[x] = c.headers[x]
                      /\ \A b \in Payload(x, c.headers[x].size) : C[b] = c.bytes[b]
    BY DEF Untouched, G, C
  <2>1. H[x] = c.headers[x] /\ \A b \in Payload(x, c.headers[x].size) : B[b] = c.bytes[b]
    BY <1>1 DEF Untouched, H, B
  <2>2. x \in DOMAIN H \ {a, front}
    BY <1>8, <1>9 DEF AllocatedIn
  <2> QED
    BY <1>10, <1>16, <2>1, <2>2 DEF AsOne
<1>21. S \ {a} \subseteq FreeIn(G, 0)
  BY <1>1, <1>11
<1>22. TurnOK(c, N, S \ {a})
  BY <1>1, <1>3, <1>18, <1>19, <1>20, <1>21 DEF TurnOK, H, f, G
<1> QED
  BY <1>22 DEF N

LEMMA MergeTurn ==
    ASSUME NEW c, NEW M, NEW S, TurnOK(c, M, S), NEW a \in S, \A y \in S \ {a} : a < y
    PROVE  TurnOK(c, Merge(M, a), S \ {a})
<1>1. CASE M.free_list # << >> /\ EndOf(M.headers, Last(M.free_list)) = a
  BY <1>1, JoinTurn
<1>2. CASE ~ (M.free_list # << >> /\ EndOf(M.headers, Last(M.free_list)) = a)
  <2>1. Merge(M, a) = [M EXCEPT !.free_list = Append(@, a)]
    BY <1>2 DEF Merge
  <2>2. TurnOK(c, [M EXCEPT !.free_list = Append(@, a)], S \ {a})
    BY <1>2, LinkTurn
  <2> QED
    BY <2>1, <2>2
<1> QED
  BY <1>1, <1>2

(* Before the first turn: the list is taken apart *)
LEMMA FirstTurn ==
    ASSUME NEW c, NEW a, ShapeOK(c, {a}), a \in FreeIn(c.headers, 0)
    PROVE  TurnOK(c, [c EXCEPT !.free_list = << >>], FreeIn(c.headers, 0))
<1> DEFINE N == [c EXCEPT !.free_list = << >>]
           H == c.headers
           S == FreeIn(H, 0)
<1>1. /\ DOMAIN c = PoolFields /\ BucketsOK(H, c.bucket_free_list, c.bucket_free, {a})
  BY ShapeParts
<1>2. /\ DOMAIN N = PoolFields /\ N.initialized = c.initialized /\ N.start = c.start /\ N.end = c.end
      /\ N.headers = H /\ N.bytes = c.bytes /\ N.free_list = << >>
      /\ N.bucket_free_list = c.bucket_free_list /\ N.bucket_free = c.bucket_free
      /\ N.total_used = c.total_used /\ N.fallback_used = c.fallback_used
  BY <1>1 DEF PoolFields
<1> HIDE DEF N
<1>3. ListOK(H, N.free_list, S) /\ Range(N.free_list) = {}
  <2>1. << >> \in Seq(Nat) /\ Ordered(H, << >>) /\ Range(<< >>) = {}
    BY DEF Ordered, Range
  <2> QED
    BY <1>2, <2>1 DEF ListOK
<1>4. BucketsOK(H, c.bucket_free_list, c.bucket_free, S)
  <2>1. \A i \in UsedBuckets : FreeIn(H, i) \ S = FreeIn(H, i) \ {a}
    <3>1. \A i \in UsedBuckets : i # 0
      BY BucketFacts DEF UsedBuckets
    <3> QED
      BY <3>1 DEF FreeIn
  <2> QED
    BY <1>1, <2>1 DEF BucketsOK, BucketOK
<1>5. ShapeOK(N, S)
  BY <1>2, <1>3, <1>4 DEF ShapeOK
<1>6. Untouched(c, N, AllocatedIn(H))
  BY <1>2 DEF Untouched, AllocatedIn
<1>7. TurnOK(c, N, S)
  BY <1>2, <1>3, <1>5, <1>6 DEF TurnOK
<1> QED
  BY <1>7 DEF N

(* The loop of noxtls_mem_coalesce_fallback *)
LEMMA CoalesceOK ==
    ASSUME NEW c, NEW a, ShapeOK(c, {a}), a \in FreeIn(c.headers, 0)
    PROVE  LET list == InsertOrdered(c.free_list, a)
           IN  TurnOK(c, Coalesce(c, list)[Len(list)], {})
<1> DEFINE H == c.headers
           L == InsertOrdered(c.free_list, a)
           turns == Coalesce(c, L)
           Rest(n) == { L[m] : m \in n + 1 .. Len(L) }
           Good == { n \in Nat : TurnOK(c, turns[n], Rest(n)) }
<1>1. /\ c.free_list \in Seq(Nat) /\ Rising(c.free_list) /\ Range(c.free_list) = FreeIn(H, 0) \ {a}
      /\ a \in Nat
  <2>1. BlocksOK(H, c.start, c.end) /\ c.start \in Nat /\ c.end \in Nat /\ ListOK(H, c.free_list, {a})
    BY ShapeParts
  <2>2. a \in DOMAIN H
    BY DEF FreeIn
  <2>3. a \in Nat
    BY <2>1, <2>2, BlockFacts
  <2>4. Rising(c.free_list)
    BY <2>1, ListFacts DEF Rising
  <2> QED
    BY <2>1, <2>3, <2>4 DEF ListOK
<1>2. L \in Seq(Nat) /\ Rising(L) /\ Range(L) = FreeIn(H, 0)
  <2>1. L \in Seq(Nat) /\ Rising(L) /\ Range(L) = Range(c.free_list) \cup {a}
    BY <1>1, InsertedOK
  <2> QED
    BY <1>1, <2>1
<1> HIDE DEF L
<1>3. Len(L) \in Nat /\ DOMAIN L = 1 .. Len(L) /\ \A m \in 1 .. Len(L) : L[m] \in Nat
  BY <1>2
<1>4. turns = [n \in 0 .. Len(L) |-> IF n = 0 THEN [c EXCEPT !.free_list = << >>]
                                     ELSE Merge(turns[n - 1], L[n])]
  BY <1>3, CoalesceDef
<1> HIDE DEF turns
<1>5. /\ turns[0] = [c EXCEPT !.free_list = << >>]
      /\ \A n \in 0 .. Len(L) : n # Len(L) => turns[n + 1] = Merge(turns[n], L[n + 1])
  <2>1. turns[0] = [c EXCEPT !.free_list = << >>]
    BY <1>3, <1>4
  <2>2. ASSUME NEW n \in 0 .. Len(L), n # Len(L) PROVE turns[n + 1] = Merge(turns[n], L[n + 1])
    <3>1. n + 1 \in 0 .. Len(L) /\ n + 1 # 0 /\ n + 1 - 1 = n
      BY <1>3, <2>2, NextIndex
    <3>2. \A m \in 0 .. Len(L) : m # 0 => turns[m] = Merge(turns[m - 1], L[m])
      BY <1>4
    <3> QED
      BY <3>1, <3>2
  <2> QED
    BY <2>1, <2>2
<1>6. 0 \in Good
  <2>1. Rest(0) = FreeIn(H, 0)
    BY <1>2, <1>3 DEF Range
  <2>2. TurnOK(c, turns[0], FreeIn(H, 0))
    BY <1>5, FirstTurn
  <2> QED
    BY <2>1, <2>2
<1>7. ASSUME NEW n \in 0 .. Len(L), n # Len(L), n \in Good PROVE n + 1 \in Good
  <2>1. n + 1 \in 1 .. Len(L) /\ n + 1 \in n + 1 .. Len(L) /\ n \in Nat /\ n + 1 \in Nat
    BY <1>3, <1>7, NextIndex
  <2>2. L[n + 1] \in Rest(n)
    BY <2>1
  <2>3. ASSUME NEW m \in n + 1 + 1 .. Len(L) PROVE L[n + 1] < L[m] /\ m \in n + 1 .. Len(L)
    <3>1. m \in 1 .. Len(L) /\ n + 1 < m /\ m \in n + 1 .. Len(L)
      BY <1>3, <2>1
    <3> QED
      BY <1>2, <2>1, <3>1 DEF Rising
  <2>4. ASSUME NEW m \in n + 1 .. Len(L), m # n + 1 PROVE m \in n + 1 + 1 .. Len(L)
    BY <1>3, <2>1, <2>4
  <2>5. \A m \in n + 1 + 1 .. Len(L) : L[m] # L[n + 1]
    <3> SUFFICES ASSUME NEW m \in n + 1 + 1 .. Len(L) PROVE L[m] # L[n + 1]
      OBVIOUS
    <3>1. m \in 1 .. Len(L)
      BY <1>3, <2>1
    <3> QED
      BY <1>3, <2>1, <2>3, <3>1
  <2>6. Rest(n) \ {L[n + 1]} = Rest(n + 1)
    BY <2>3, <2>4, <2>5
  <2>7. \A y \in Rest(n) \ {L[n + 1]} : L[n + 1] < y
    BY <2>3, <2>6
  <2>8. TurnOK(c, turns[n], Rest(n))
    BY <1>7
  <2> HIDE DEF Rest
  <2>9. TurnOK(c, Merge(turns[n], L[n + 1]), Rest(n) \ {L[n + 1]})
    BY <2>2, <2>7, <2>8, MergeTurn
  <2>10. turns[n + 1] = Merge(turns[n], L[n + 1])
    BY <1>5, <1>7
  <2> QED
    BY <2>1, <2>6, <2>9, <2>10
<1>8. Len(L) \in Good
  <2> HIDE DEF Good
  <2>1. 0 .. Len(L) \subseteq Good
    BY <1>3, <1>6, <1>7, Climb
  <2> QED
    BY <1>3, <2>1
<1>9. Rest(Len(L)) = {}
  BY <1>3
<1>10. TurnOK(c, turns[Len(L)], {})
  BY <1>8, <1>9
<1> QED
  BY <1>10 DEF L, turns

(* noxtls_mem_free_fallback *)
LEMMA FreeFallbackOK ==
    ASSUME NEW p, NEW c, NEW a, Unlinked(p, c, a), c.headers[a].bucket = 0
    PROVE  Release(p, FreeFallback(c, a), a)
<1> DEFINE H == c.headers
           d == [c EXCEPT !.fallback_used = Less(@, H[a].size)]
           list == InsertOrdered(c.free_list, a)
           q == Coalesce(d, list)[Len(list)]
           G == q.headers
<1>1. FreeFallback(c, a) = q
  BY DEF FreeFallback
<1>2. /\ ShapeOK(c, {a}) /\ c.end = p.end /\ a \in DOMAIN H /\ ~ H[a].allocated
      /\ AllocatedIn(H) = AllocatedIn(p.headers) \ {a} /\ Untouched(p, c, AllocatedIn(H))
      /\ c.total_used = Cardinality(Used(H, AllocatedIn(H)))
      /\ c.fallback_used = Cardinality(Used(H, ListAllocated(H))) + H[a].size
  BY DEF Unlinked
<1>3. BlocksOK(H, c.start, c.end) /\ c.start \in Nat /\ c.end \in Nat /\ DOMAIN c = PoolFields
  BY <1>2, ShapeParts
<1>4. Cardinality(Used(H, ListAllocated(H))) \in Nat /\ H[a].size \in Nat
  <2>1. ListAllocated(H) \subseteq DOMAIN H
    BY DEF ListAllocated, AllocatedIn
  <2> QED
    BY <1>2, <1>3, <2>1, UsedFinite, BlockFacts
<1>5. /\ DOMAIN d = PoolFields /\ d.initialized = c.initialized /\ d.start = c.start /\ d.end = c.end
      /\ d.headers = H /\ d.bytes = c.bytes /\ d.free_list = c.free_list
      /\ d.bucket_free_list = c.bucket_free_list /\ d.bucket_free = c.bucket_free
      /\ d.total_used = c.total_used /\ d.fallback_used = Less(c.fallback_used, H[a].size)
  BY <1>3 DEF PoolFields
<1>6. d.fallback_used = Cardinality(Used(H, ListAllocated(H)))
  BY <1>2, <1>4, <1>5 DEF Less
<1> HIDE DEF d
<1>7. ShapeOK(d, {a})
  BY <1>2, <1>5 DEF ShapeOK
<1>8. a \in FreeIn(d.headers, 0)
  BY <1>2, <1>5 DEF FreeIn
<1>9. TurnOK(d, q, {})
  <2>1. list = InsertOrdered(d.free_list, a)
    BY <1>5
  <2> HIDE DEF list
  <2> QED
    BY <1>7, <1>8, <2>1, CoalesceOK
<1> HIDE DEF q
<1>10. /\ ShapeOK(q, {}) /\ q.end = c.end /\ AllocatedIn(G) = AllocatedIn(H)
       /\ Untouched(d, q, AllocatedIn(H))
       /\ q.total_used = c.total_used /\ q.fallback_used = Cardinality(Used(H, ListAllocated(H)))
  BY <1>5, <1>6, <1>9 DEF TurnOK
<1> HIDE DEF H, G
<1>11. \A x \in AllocatedIn(H) : G[x] = H[x]
  BY <1>5, <1>10 DEF Untouched, G, H
<1>12. ListAllocated(G) = ListAllocated(H)
  BY <1>10, <1>11 DEF ListAllocated
<1>13. /\ Used(G, AllocatedIn(G)) = Used(H, AllocatedIn(H))
       /\ Used(G, ListAllocated(G)) = Used(H, ListAllocated(H))
  <2>1. \A x \in ListAllocated(H) : G[x].size = H[x].size
    BY <1>11 DEF ListAllocated
  <2>2. Used(G, ListAllocated(H)) = Used(H, ListAllocated(H))
    BY <2>1, UsedSame
  <2>3. Used(G, AllocatedIn(H)) = Used(H, AllocatedIn(H))
    BY <1>11, UsedSame
  <2> QED
    BY <1>10, <1>12, <2>2, <2>3
<1>14. CountersOK(q)
  BY <1>2, <1>10, <1>13 DEF CountersOK, G
<1>15. Untouched(p, q, AllocatedIn(H))
  BY <1>2, <1>5, <1>10 DEF Untouched, H
<1>16. Release(p, q, a)
  BY <1>2, <1>10, <1>14, <1>15 DEF Release, PoolOK, G
<1> QED
  BY <1>1, <1>16

(* noxtls_free of an allocated block; of anything else it does nothing *)
LEMMA FreeOK ==
    ASSUME NEW p, PoolOK(p), NEW ptr, ptr - HeaderSize \in AllocatedIn(p.headers)
    PROVE  Release(p, Free(p, ptr), ptr - HeaderSize)
<1> DEFINE a == ptr - HeaderSize
<1> SUFFICES Release(p, Free(p, ptr), a)
  OBVIOUS
<1>1. HeaderValid(p, a)
  BY ShapeParts DEF HeaderValid, AllocatedIn, PoolOK
<1>2. Free(p, ptr) = IF p.headers[a].bucket # 0 THEN FreeBucket(Cleared(p, a), a)
                     ELSE FreeFallback(Cleared(p, a), a)
  BY <1>1 DEF Free, Cleared
<1> HIDE DEF a
<1>3. PICK c : c = Cleared(p, a)
  OBVIOUS
<1>4. Unlinked(p, c, a)
  BY <1>3, ClearedOK DEF a
<1>5. c.headers[a].bucket = p.headers[a].bucket
  BY <1>4 DEF Unlinked
<1>6. CASE p.headers[a].bucket # 0
  BY <1>2, <1>3, <1>4, <1>5, <1>6, FreeBucketOK
<1>7. CASE p.headers[a].bucket = 0
  BY <1>2, <1>3, <1>4, <1>5, <1>7, FreeFallbackOK
<1> QED
  BY <1>6, <1>7

-----------------------------------------------------------------------------
(* Initialization *)

(* The loops of noxtls_mem_init_buckets are well defined *)
LEMMA BucketBlocksDef ==
    ASSUME NEW p, NEW i \in Buckets
    PROVE  BucketBlocks(p, i) =
               [j \in 0 .. BucketCounts[i] |->
                   IF j = 0 THEN p ELSE AddBucketBlock(BucketBlocks(p, i)[j - 1], i)]
<1> DEFINE top == BucketCounts[i]
           Follows(g, m) == g = [j \in 0 .. m |-> IF j = 0 THEN p ELSE AddBucketBlock(g[j - 1], i)]
           Has == { m \in Nat : \E g : Follows(g, m) }
<1>0. top \in Nat
  BY BucketFacts
<1>1. 0 \in Has
  <2> DEFINE g == [n \in 0 .. 0 |-> p]
  <2>1. Follows(g, 0)
    OBVIOUS
  <2> QED
    BY <2>1
<1>2. ASSUME NEW m \in 0 .. top, m \in Has PROVE m + 1 \in Has
  <2>1. PICK g : Follows(g, m)
    BY <1>2
  <2> DEFINE h == [j \in 0 .. m + 1 |-> IF j = m + 1 THEN AddBucketBlock(g[m], i) ELSE g[j]]
  <2>2. m \in Nat /\ \A j \in 0 .. m : g[j] = IF j = 0 THEN p ELSE AddBucketBlock(g[j - 1], i)
    BY <1>0, <2>1
  <2>3. Follows(h, m + 1)
    <3>1. ASSUME NEW j \in 0 .. m + 1
          PROVE  h[j] = IF j = 0 THEN p ELSE AddBucketBlock(h[j - 1], i)
      <4>1. CASE j = m + 1
        BY <2>2, <4>1
      <4>2. CASE j \in 0 .. m
        <5>1. h[j] = g[j] /\ (j # 0 => h[j - 1] = g[j - 1])
          BY <2>2, <4>2
        <5> QED
          BY <5>1, <4>2, <2>2
      <4> QED
        BY <2>2, <4>1, <4>2
    <3> HIDE DEF h
    <3>2. h = [j \in 0 .. m + 1 |-> h[j]]
      BY DEF h
    <3> QED
      BY <3>1, <3>2
  <2> HIDE DEF Follows, h
  <2> QED
    BY <2>2, <2>3
<1>3. top \in Has
  <2> HIDE DEF Has, top
  <2>1. 0 .. top \subseteq Has
    BY <1>0, <1>1, <1>2, Climb
  <2> QED
    BY <1>0, <2>1
<1>4. PICK g : Follows(g, top)
  BY <1>3
<1>5. BucketBlocks(p, i) = CHOOSE turns : Follows(turns, top)
  BY DEF BucketBlocks
<1>6. Follows(BucketBlocks(p, i), top)
  BY <1>4, <1>5
<1> QED
  BY <1>6

LEMMA FilledBucketsDef ==
    ASSUME NEW p
    PROVE  FilledBuckets(p) =
               [i \in 0 .. Len(BucketSizes) |->
                   IF i = 0 THEN [p EXCEPT !.bucket_free = BucketCounts,
                                           !.bucket_free_list = [k \in Buckets |-> << >>]]
                   ELSE BucketBlocks(FilledBuckets(p)[i - 1], i)[BucketCounts[i]]]
<1> DEFINE top == Len(BucketSizes)
           first == [p EXCEPT !.bucket_free = BucketCounts,
                              !.bucket_free_list = [k \in Buckets |-> << >>]]
           Follows(g, m) == g = [i \in 0 .. m |-> IF i = 0 THEN first
                                                  ELSE BucketBlocks(g[i - 1], i)[BucketCounts[i]]]
           Has == { m \in Nat : \E g : Follows(g, m) }
<1> HIDE DEF first
<1>0. top \in Nat
  BY BucketFacts
<1>1. 0 \in Has
  <2> DEFINE g == [n \in 0 .. 0 |-> first]
  <2>1. Follows(g, 0)
    OBVIOUS
  <2> QED
    BY <2>1
<1>2. ASSUME NEW m \in 0 .. top, m \in Has PROVE m + 1 \in Has
  <2>1. PICK g : Follows(g, m)
    BY <1>2
  <2> DEFINE h == [i \in 0 .. m + 1 |->
                      IF i = m + 1 THEN BucketBlocks(g[m], m + 1)[BucketCounts[m + 1]] ELSE g[i]]
  <2>2. m \in Nat /\ \A i \in 0 .. m : g[i] = IF i = 0 THEN first
                                             ELSE BucketBlocks(g[i - 1], i)[BucketCounts[i]]
    BY <1>0, <2>1
  <2>3. Follows(h, m + 1)
    <3>1. ASSUME NEW i \in 0 .. m + 1
          PROVE  h[i] = IF i = 0 THEN first ELSE BucketBlocks(h[i - 1], i)[BucketCounts[i]]
      <4>1. CASE i = m + 1
        BY <2>2, <4>1
      <4>2. CASE i \in 0 .. m
        <5>1. h[i] = g[i] /\ (i # 0 => h[i - 1] = g[i - 1])
          BY <2>2, <4>2
        <5> QED
          BY <5>1, <4>2, <2>2
      <4> QED
        BY <2>2, <4>1, <4>2
    <3> HIDE DEF h
    <3>2. h = [i \in 0 .. m + 1 |-> h[i]]
      BY DEF h
    <3> QED
      BY <3>1, <3>2
  <2> HIDE DEF Follows, h
  <2> QED
    BY <2>2, <2>3
<1>3. top \in Has
  <2> HIDE DEF Has, top
  <2>1. 0 .. top \subseteq Has
    BY <1>0, <1>1, <1>2, Climb
  <2> QED
    BY <1>0, <2>1
<1>4. PICK g : Follows(g, top)
  BY <1>3
<1>5. FilledBuckets(p) = CHOOSE turns : Follows(turns, top)
  BY DEF FilledBuckets, first
<1>6. Follows(FilledBuckets(p), top)
  BY <1>4, <1>5
<1> QED
  BY <1>6 DEF first

(* A buffer from lo to hi that is being divided: all blocks lie before the *)
(* cursor, and all are free blocks of buckets.                             *)
BuildFields == {"failed", "cursor", "end", "headers", "free_list", "bucket_free_list", "bucket_free"}

LaidOut(p, lo, hi) ==
    /\ p.cursor \in Nat /\ lo <= p.cursor /\ p.free_list = << >>
    /\ BlocksOK(p.headers, lo, hi)
    /\ \A a \in DOMAIN p.headers :
          /\ EndOf(p.headers, a) <= p.cursor /\ ~ p.headers[a].allocated
          /\ p.headers[a].bucket \in UsedBuckets /\ p.headers[a].bucket # 0

(* The buckets before i are complete, i has j blocks. *)
Made(i, j, k) == IF k < i THEN BucketCounts[k] ELSE IF k = i THEN j ELSE 0

BucketMade(H, i, j, k, list) ==
    list \in Seq(Nat) /\ IsInjective(list) /\ Range(list) = FreeIn(H, k) /\ Len(list) = Made(i, j, k)

Building(p, lo, hi, i, j) ==
    /\ DOMAIN p = BuildFields /\ p.end = hi /\ p.failed \in BOOLEAN
    /\ ~ p.failed =>
          /\ LaidOut(p, lo, hi) /\ p.bucket_free = BucketCounts /\ DOMAIN p.bucket_free_list = Buckets
          /\ \A k \in Buckets : BucketMade(p.headers, i, j, k, p.bucket_free_list[k])

(* A new block behind all others *)
Behind(H, lo, hi, cursor, h) ==
    /\ cursor \in Nat /\ lo <= cursor /\ \A x \in DOMAIN H : EndOf(H, x) <= cursor
    /\ IsBlock(h) /\ HeaderAt(cursor) + HeaderSize + h.size <= hi

Placed(H, a, h, G) ==
    /\ a \in Nat /\ a \notin DOMAIN H /\ DOMAIN G = DOMAIN H \cup {a} /\ G[a] = h
    /\ \A x \in DOMAIN H : G[x] = H[x] /\ EndOf(G, x) = EndOf(H, x)
    /\ EndOf(G, a) = a + HeaderSize + h.size /\ \A x \in DOMAIN H : EndOf(H, x) <= a

LEMMA BlockBehind ==
    ASSUME NEW H, NEW lo \in Nat, NEW hi \in Nat, BlocksOK(H, lo, hi), NEW cursor, NEW h,
           Behind(H, lo, hi, cursor, h)
    PROVE  /\ BlocksOK(Put(H, HeaderAt(cursor), h), lo, hi)
           /\ Placed(H, HeaderAt(cursor), h, Put(H, HeaderAt(cursor), h))
<1> DEFINE a == HeaderAt(cursor)
           G == Put(H, a, h)
<1> USE DEF Behind
<1>1. a \in Nat /\ cursor <= a /\ Aligned(a + HeaderSize)
  BY HeaderAtFacts
<1> HIDE DEF a
<1>100. a + HeaderSize + h.size <= hi
  BY DEF a
<1>2. \A x \in DOMAIN H : x \in Nat /\ EndOf(H, x) \in Nat /\ x < EndOf(H, x)
  BY BlockFacts
<1>3. \A x \in DOMAIN H : EndOf(H, x) <= a /\ x < a
  BY <1>1, <1>2
<1>4. a \notin DOMAIN H
  BY <1>1, <1>3
<1>5. DOMAIN G = DOMAIN H \cup {a} /\ G[a] = h /\ \A x \in DOMAIN H : G[x] = H[x]
  BY <1>4 DEF Put
<1> HIDE DEF G
<1>6. EndOf(G, a) = a + HeaderSize + h.size /\ \A x \in DOMAIN H : EndOf(G, x) = EndOf(H, x)
  BY <1>5 DEF EndOf
<1>7. ASSUME NEW c \in DOMAIN G
      PROVE  c \in Nat /\ IsBlock(G[c]) /\ lo <= c /\ EndOf(G, c) <= hi /\ Aligned(c + HeaderSize)
  <2>1. CASE c = a
    BY <1>1, <1>5, <1>6, <1>100, <2>1
  <2>2. CASE c \in DOMAIN H
    BY <1>5, <1>6, <2>2 DEF BlocksOK
  <2> QED
    BY <1>5, <2>1, <2>2
<1>8. ASSUME NEW c \in DOMAIN G, NEW d \in DOMAIN G, c < d PROVE EndOf(G, c) <= d
  <2>1. CASE c = a
    <3>1. d \in DOMAIN H
      BY <1>1, <1>5, <1>8, <2>1
    <3>2. d \in Nat /\ d < a
      BY <1>2, <1>3, <3>1
    <3> QED
      BY <1>1, <1>8, <2>1, <3>2
  <2>2. CASE c \in DOMAIN H /\ d = a
    BY <1>3, <1>6, <2>2
  <2>3. CASE c \in DOMAIN H /\ d \in DOMAIN H
    BY <1>6, <1>8, <2>3 DEF BlocksOK
  <2> QED
    BY <1>5, <2>1, <2>2, <2>3
<1>9. BlocksOK(G, lo, hi)
  BY <1>7, <1>8 DEF BlocksOK
<1> QED
  BY <1>1, <1>3, <1>4, <1>5, <1>6, <1>9 DEF G, a, Placed

LEMMA AddBucketBlockOK ==
    ASSUME NEW p, NEW lo \in Nat, NEW hi \in Nat, NEW i \in Buckets, NEW j \in Nat,
           mode # "legacy", Building(p, lo, hi, i, j)
    PROVE  Building(AddBucketBlock(p, i), lo, hi, i, j + 1)
<1> DEFINE q == AddBucketBlock(p, i)
           H == p.headers
           a == HeaderAt(p.cursor)
           size == BucketSize(i)
           h == [size |-> size, allocated |-> FALSE, bucket |-> i]
           G == q.headers
<1>1. DOMAIN p = BuildFields /\ p.end = hi /\ p.failed \in BOOLEAN
  BY DEF Building
<1>2. CASE p.failed \/ a > p.end \/ p.end - a < HeaderSize + size
  <2>1. q = [p EXCEPT !.failed = TRUE]
    BY <1>2 DEF AddBucketBlock
  <2> HIDE DEF q
  <2>2. DOMAIN q = BuildFields /\ q.end = hi /\ q.failed = TRUE
    BY <1>1, <2>1 DEF BuildFields
  <2>3. Building(q, lo, hi, i, j + 1)
    BY <2>2 DEF Building
  <2> QED
    BY <2>3 DEF q
<1>3. CASE ~ (p.failed \/ a > p.end \/ p.end - a < HeaderSize + size)
  <2>1. /\ LaidOut(p, lo, hi) /\ p.bucket_free = BucketCounts /\ DOMAIN p.bucket_free_list = Buckets
        /\ \A k \in Buckets : BucketMade(H, i, j, k, p.bucket_free_list[k])
    BY <1>3 DEF Building
  <2> DEFINE list == p.bucket_free_list[i]
  <2>2. q = [p EXCEPT !.headers = Put(H, a, h), !.bucket_free_list[i] = <<a>> \o list,
                      !.cursor = a + HeaderSize + size]
    BY <1>3 DEF AddBucketBlock
  <2> HIDE DEF q, h
  <2>3. /\ DOMAIN q = BuildFields /\ q.failed = p.failed /\ q.end = hi /\ G = Put(H, a, h)
        /\ q.free_list = p.free_list /\ q.bucket_free = p.bucket_free
        /\ q.bucket_free_list = [p.bucket_free_list EXCEPT ![i] = <<a>> \o list]
        /\ q.cursor = a + HeaderSize + size
    BY <1>1, <2>2 DEF BuildFields
  <2>4. /\ size \in Nat \ {0} /\ i # 0 /\ i \in UsedBuckets /\ HeaderSize \in Nat \ {0}
    BY BucketFacts, Constants DEF UsedBuckets
  <2>5. /\ DOMAIN h = BlockFields /\ h.size = size /\ h.allocated = FALSE /\ h.bucket = i
    BY DEF h, BlockFields
  <2>6. IsBlock(h)
    BY <2>4, <2>5 DEF IsBlock
  <2>7. /\ p.cursor \in Nat /\ lo <= p.cursor /\ BlocksOK(H, lo, hi) /\ p.free_list = << >>
        /\ \A x \in DOMAIN H : /\ EndOf(H, x) <= p.cursor /\ ~ H[x].allocated
                               /\ H[x].bucket \in UsedBuckets /\ H[x].bucket # 0
    BY <2>1 DEF LaidOut
  <2>8. a \in Nat /\ p.cursor <= a
    BY <2>7, HeaderAtFacts
  <2>9. a + HeaderSize + h.size <= hi
    BY <1>1, <1>3, <2>4, <2>5, <2>8
  <2> HIDE DEF a, size
  <2>10. a = HeaderAt(p.cursor)
    BY DEF a
  <2> HIDE DEF H, G, list
  <2>11. /\ a \notin DOMAIN H /\ BlocksOK(G, lo, hi)
         /\ DOMAIN G = DOMAIN H \cup {a} /\ G[a] = h
         /\ \A x \in DOMAIN H : G[x] = H[x] /\ EndOf(G, x) = EndOf(H, x)
         /\ EndOf(G, a) = a + HeaderSize + h.size
         /\ \A x \in DOMAIN H : EndOf(H, x) <= a
    <3>1. Behind(H, lo, hi, p.cursor, h)
      BY <2>6, <2>7, <2>9, <2>10 DEF Behind
    <3>2. BlocksOK(G, lo, hi) /\ Placed(H, a, h, G)
      BY <2>3, <2>7, <2>10, <3>1, BlockBehind
    <3> QED
      BY <3>2 DEF Placed
  <2>12. LaidOut(q, lo, hi)
    <3>1. q.cursor \in Nat /\ lo <= q.cursor /\ a <= q.cursor
      BY <2>3, <2>4, <2>7, <2>8
    <3>2. ASSUME NEW x \in DOMAIN G
          PROVE  /\ EndOf(G, x) <= q.cursor /\ ~ G[x].allocated
                 /\ G[x].bucket \in UsedBuckets /\ G[x].bucket # 0
      <4>1. CASE x = a
        <5>1. EndOf(G, a) = q.cursor
          BY <2>3, <2>5, <2>11
        <5> QED
          BY <2>4, <2>5, <2>11, <3>1, <4>1, <5>1
      <4>2. CASE x \in DOMAIN H
        <5>1. EndOf(G, x) = EndOf(H, x) /\ EndOf(H, x) <= a /\ EndOf(H, x) \in Nat /\ G[x] = H[x]
          BY <2>7, <2>11, <4>2, BlockFacts
        <5>2. EndOf(G, x) <= q.cursor
          BY <2>8, <3>1, <5>1
        <5> QED
          BY <2>7, <4>2, <5>1, <5>2
      <4> QED
        BY <2>11, <4>1, <4>2
    <3> QED
      BY <2>3, <2>7, <2>11, <3>1, <3>2 DEF LaidOut, G
  <2>13. ASSUME NEW k \in Buckets PROVE BucketMade(G, i, j + 1, k, q.bucket_free_list[k])
    <3>1. BucketMade(H, i, j, k, p.bucket_free_list[k])
      BY <2>1 DEF H
    <3>2. CASE k = i
      <4>1. list \in Seq(Nat) /\ IsInjective(list) /\ Range(list) = FreeIn(H, i) /\ Len(list) = j
        BY <3>1, <3>2, BucketFacts DEF BucketMade, Made, list
      <4>2. a \notin Range(list)
        BY <2>11, <4>1 DEF FreeIn
      <4>3. /\ <<a>> \o list \in Seq(Nat) /\ Len(<<a>> \o list) = Len(list) + 1
            /\ IsInjective(<<a>> \o list) /\ Range(<<a>> \o list) = Range(list) \cup {a}
        BY <2>8, <4>1, <4>2, ConsList
      <4>4. FreeIn(G, i) = FreeIn(H, i) \cup {a}
        BY <2>5, <2>11 DEF FreeIn
      <4>5. q.bucket_free_list[i] = <<a>> \o list
        BY <2>1, <2>3
      <4>6. Made(i, j + 1, i) = j + 1
        BY BucketFacts DEF Made
      <4> QED
        BY <3>2, <4>1, <4>3, <4>4, <4>5, <4>6 DEF BucketMade
    <3>3. CASE k # i
      <4>1. q.bucket_free_list[k] = p.bucket_free_list[k]
        BY <2>1, <2>3, <3>3
      <4>2. FreeIn(G, k) = FreeIn(H, k)
        BY <2>5, <2>11, <3>3 DEF FreeIn
      <4>3. Made(i, j + 1, k) = Made(i, j, k)
        BY <3>3 DEF Made
      <4> QED
        BY <3>1, <4>1, <4>2, <4>3 DEF BucketMade
    <3> QED
      BY <3>2, <3>3
  <2>14. DOMAIN q.bucket_free_list = Buckets
    BY <2>1, <2>3
  <2>15. Building(q, lo, hi, i, j + 1)
    BY <1>1, <2>1, <2>3, <2>12, <2>13, <2>14 DEF Building, G
  <2> QED
    BY <2>15 DEF q
<1> QED
  BY <1>2, <1>3

LEMMA BucketBlocksOK ==
    ASSUME NEW p, NEW lo \in Nat, NEW hi \in Nat, NEW i \in Buckets,
           mode # "legacy", Building(p, lo, hi, i, 0)
    PROVE  Building(BucketBlocks(p, i)[BucketCounts[i]], lo, hi, i, BucketCounts[i])
<1> DEFINE top == BucketCounts[i]
           turns == BucketBlocks(p, i)
           Good == { j \in Nat : Building(turns[j], lo, hi, i, j) }
<1>1. top \in Nat
  BY BucketFacts
<1>2. turns = [j \in 0 .. top |-> IF j = 0 THEN p ELSE AddBucketBlock(turns[j - 1], i)]
  BY BucketBlocksDef
<1> HIDE DEF turns, top
<1>3. \A j \in 0 .. top : turns[j] = IF j = 0 THEN p ELSE AddBucketBlock(turns[j - 1], i)
  BY <1>2
<1>4. 0 \in Good
  <2>1. turns[0] = p
    BY <1>1, <1>3
  <2> QED
    BY <2>1
<1>5. ASSUME NEW j \in 0 .. top, j # top, j \in Good PROVE j + 1 \in Good
  <2>1. j + 1 \in 0 .. top /\ j + 1 # 0 /\ j + 1 - 1 = j /\ j \in Nat /\ j + 1 \in Nat
    BY <1>1, <1>5, NextIndex
  <2>2. turns[j + 1] = AddBucketBlock(turns[j], i)
    BY <1>3, <2>1
  <2>3. Building(turns[j], lo, hi, i, j)
    BY <1>5
  <2>4. Building(AddBucketBlock(turns[j], i), lo, hi, i, j + 1)
    BY <2>1, <2>3, AddBucketBlockOK
  <2> QED
    BY <2>1, <2>2, <2>4
<1>6. top \in Good
  <2> HIDE DEF Good
  <2>1. 0 .. top \subseteq Good
    BY <1>1, <1>4, <1>5, Climb
  <2> QED
    BY <1>1, <2>1
<1> QED
  BY <1>6 DEF turns, top

(* After the last block of bucket i, before the first of the next *)
LEMMA NextBucket ==
    ASSUME NEW p, NEW lo \in Nat, NEW hi \in Nat, NEW i \in Nat,
           i # 0 => i \in Buckets /\ Building(p, lo, hi, i, BucketCounts[i]),
           i = 0 => Building(p, lo, hi, 0, 0)
    PROVE  Building(p, lo, hi, i + 1, 0)
<1>1. \A k \in Buckets : k \in Nat \ {0}
  BY BucketFacts
<1>2. CASE i = 0
  <2>1. \A k \in Buckets : Made(0, 0, k) = Made(i + 1, 0, k)
    BY <1>1, <1>2 DEF Made
  <2> QED
    BY <1>2, <2>1 DEF Building, BucketMade
<1>3. CASE i # 0
  <2>1. \A k \in Buckets : Made(i, BucketCounts[i], k) = Made(i + 1, 0, k)
    BY <1>1, <1>3 DEF Made
  <2> QED
    BY <1>3, <2>1 DEF Building, BucketMade
<1> QED
  BY <1>2, <1>3

(* noxtls_mem_init_buckets *)
LEMMA InitBucketsOK ==
    ASSUME NEW p, NEW lo \in Nat, NEW hi \in Nat, mode # "legacy",
           DOMAIN p = BuildFields, p.end = hi, p.failed \in BOOLEAN, p.cursor = lo,
           p.headers = << >>, p.free_list = << >>
    PROVE  LET q == InitBuckets(p)
           IN  /\ DOMAIN q = BuildFields /\ q.end = hi /\ q.failed \in BOOLEAN
               /\ ~ q.failed => /\ LaidOut(q, lo, hi)
                                /\ BucketsOK(q.headers, q.bucket_free_list, q.bucket_free, {})
<1> DEFINE top == Len(BucketSizes)
           turns == FilledBuckets(p)
           first == [p EXCEPT !.bucket_free = BucketCounts,
                              !.bucket_free_list = [k \in Buckets |-> << >>]]
           Good == { i \in Nat : Building(turns[i], lo, hi, i + 1, 0) }
<1>1. top \in Nat /\ Buckets = 1 .. top
  BY BucketFacts
<1>2. turns = [i \in 0 .. top |-> IF i = 0 THEN first
                                  ELSE BucketBlocks(turns[i - 1], i)[BucketCounts[i]]]
  BY FilledBucketsDef
<1> HIDE DEF turns, top
<1>3. turns[0] = first
  BY <1>1, <1>2
<1>4. \A i \in 0 .. top : i # 0 => turns[i] = BucketBlocks(turns[i - 1], i)[BucketCounts[i]]
  <2> HIDE DEF first
  <2> QED
    BY <1>2
<1>5. Building(first, lo, hi, 0, 0)
  <2>1. /\ DOMAIN first = BuildFields /\ first.end = hi /\ first.failed = p.failed /\ first.cursor = lo
        /\ first.headers = << >> /\ first.free_list = << >> /\ first.bucket_free = BucketCounts
        /\ first.bucket_free_list = [k \in Buckets |-> << >>]
    BY DEF BuildFields
  <2> HIDE DEF first
  <2>2. DOMAIN first.headers = {}
    BY <2>1
  <2>3. LaidOut(first, lo, hi)
    <3>1. lo <= first.cursor /\ first.cursor \in Nat
      BY <2>1
    <3>2. BlocksOK(first.headers, lo, hi)
      BY <2>2 DEF BlocksOK
    <3> QED
      BY <2>1, <2>2, <3>1, <3>2 DEF LaidOut
  <2>4. ASSUME NEW k \in Buckets PROVE BucketMade(first.headers, 0, 0, k, first.bucket_free_list[k])
    <3>1. first.bucket_free_list[k] = << >> /\ FreeIn(first.headers, k) = {} /\ Made(0, 0, k) = 0
      <4>1. k \in Nat \ {0}
        BY <1>1
      <4>2. ~ (k < 0) /\ k # 0
        BY <4>1
      <4> QED
        BY <2>1, <2>2, <4>2 DEF FreeIn, Made
    <3>2. << >> \in Seq(Nat) /\ IsInjective(<< >>) /\ Range(<< >>) = {} /\ Len(<< >>) = 0
      BY DEF IsInjective, Range
    <3> QED
      BY <3>1, <3>2 DEF BucketMade
  <2> QED
    BY <2>1, <2>3, <2>4 DEF Building
<1> HIDE DEF first
<1>6. 0 \in Good
  <2>1. Building(first, lo, hi, 0 + 1, 0)
    BY <1>5, NextBucket
  <2> QED
    BY <1>3, <2>1
<1>7. ASSUME NEW i \in 0 .. top, i # top, i \in Good PROVE i + 1 \in Good
  <2>1. /\ i + 1 \in 0 .. top /\ i + 1 \in 1 .. top /\ i + 1 # 0 /\ i + 1 - 1 = i /\ i \in Nat /\ i + 1 \in Nat
    BY <1>1, <1>7, NextIndex
  <2>2. turns[i + 1] = BucketBlocks(turns[i], i + 1)[BucketCounts[i + 1]]
    BY <1>4, <2>1
  <2>3. Building(turns[i], lo, hi, i + 1, 0)
    BY <1>7
  <2>4. Building(turns[i + 1], lo, hi, i + 1, BucketCounts[i + 1])
    BY <1>1, <2>1, <2>2, <2>3, BucketBlocksOK
  <2>5. Building(turns[i + 1], lo, hi, i + 1 + 1, 0)
    BY <1>1, <2>1, <2>4, NextBucket
  <2> QED
    BY <2>1, <2>5
<1>8. top \in Good
  <2> HIDE DEF Good
  <2>1. 0 .. top \subseteq Good
    BY <1>1, <1>6, <1>7, Climb
  <2> QED
    BY <1>1, <2>1
<1> DEFINE q == turns[top]
<1>9. InitBuckets(p) = q
  BY DEF InitBuckets, turns, top
<1>10. Building(q, lo, hi, top + 1, 0)
  BY <1>8
<1> HIDE DEF q
<1>11. ASSUME ~ q.failed PROVE BucketsOK(q.headers, q.bucket_free_list, q.bucket_free, {})
  <2>1. /\ q.bucket_free = BucketCounts /\ DOMAIN q.bucket_free_list = Buckets
        /\ \A k \in Buckets : BucketMade(q.headers, top + 1, 0, k, q.bucket_free_list[k])
    BY <1>10, <1>11 DEF Building
  <2>2. DOMAIN q.bucket_free = Buckets /\ UsedBuckets = Buckets
    BY <2>1, BucketFacts DEF UsedBuckets
  <2>3. \A k \in Buckets : Made(top + 1, 0, k) = BucketCounts[k]
    BY <1>1 DEF Made
  <2>4. ASSUME NEW k \in Buckets
        PROVE  BucketOK(q.headers, k, q.bucket_free_list[k], q.bucket_free[k], {})
    BY <2>1, <2>3 DEF BucketMade, BucketOK
  <2> QED
    BY <2>1, <2>2, <2>4 DEF BucketsOK
<1> QED
  BY <1>9, <1>10, <1>11 DEF Building

(* The buffer is divided: free blocks, all of them in a list *)
Divided(p, lo, hi) ==
    /\ BlocksOK(p.headers, lo, hi) /\ Tiled(p.headers, hi) /\ KindsOK(p.headers)
    /\ ListOK(p.headers, p.free_list, {})
    /\ BucketsOK(p.headers, p.bucket_free_list, p.bucket_free, {})
    /\ \A a \in DOMAIN p.headers : ~ p.headers[a].allocated

LEMMA BucketsOnly ==
    ASSUME NEW p, NEW lo \in Nat, NEW hi \in Nat, LaidOut(p, lo, hi),
           BucketsOK(p.headers, p.bucket_free_list, p.bucket_free, {})
    PROVE  Divided(p, lo, hi)
<1>1. /\ p.free_list = << >> /\ BlocksOK(p.headers, lo, hi)
      /\ \A a \in DOMAIN p.headers : /\ ~ p.headers[a].allocated
                                     /\ p.headers[a].bucket \in UsedBuckets /\ p.headers[a].bucket # 0
  BY DEF LaidOut
<1>2. Tiled(p.headers, hi) /\ KindsOK(p.headers) /\ FreeIn(p.headers, 0) = {}
  BY <1>1 DEF Tiled, KindsOK, FreeIn
<1>3. << >> \in Seq(Nat) /\ Ordered(p.headers, << >>) /\ Range(<< >>) = {}
  BY DEF Ordered, Range
<1>4. ListOK(p.headers, p.free_list, {})
  BY <1>1, <1>2, <1>3 DEF ListOK
<1> QED
  BY <1>1, <1>2, <1>4 DEF Divided

(* noxtls_mem_init_fallback *)
LEMMA InitFallbackOK ==
    ASSUME NEW p, NEW lo \in Nat, NEW hi \in Nat, mode # "buckets",
           DOMAIN p = BuildFields, p.end = hi, p.failed \in BOOLEAN,
           ~ p.failed => /\ LaidOut(p, lo, hi)
                         /\ BucketsOK(p.headers, p.bucket_free_list, p.bucket_free, {})
    PROVE  LET q == InitFallback(p)
           IN  q.failed \in BOOLEAN /\ (~ q.failed => Divided(q, lo, hi))
<1> DEFINE q == InitFallback(p)
           H == p.headers
           a == HeaderAt(p.cursor)
           h == [size |-> p.end - a - HeaderSize, allocated |-> FALSE, bucket |-> 0]
           G == q.headers
<1>1. CASE p.failed \/ a >= p.end \/ p.end <= a + HeaderSize
  <2>1. q = [p EXCEPT !.failed = TRUE]
    BY <1>1 DEF InitFallback
  <2> HIDE DEF q
  <2>2. q.failed = TRUE
    BY <2>1 DEF BuildFields
  <2> QED
    BY <2>2 DEF q
<1>2. CASE ~ (p.failed \/ a >= p.end \/ p.end <= a + HeaderSize)
  <2>1. q = [p EXCEPT !.headers = Put(H, a, h), !.free_list = <<a>>]
    BY <1>2 DEF InitFallback
  <2>2. LaidOut(p, lo, hi) /\ BucketsOK(H, p.bucket_free_list, p.bucket_free, {})
    BY <1>2
  <2> DEFINE size == hi - a - HeaderSize
  <2> HIDE DEF q, h
  <2>3. /\ q.failed = p.failed /\ G = Put(H, a, h) /\ q.free_list = <<a>>
        /\ q.bucket_free = p.bucket_free /\ q.bucket_free_list = p.bucket_free_list
    BY <2>1 DEF BuildFields
  <2>4. DOMAIN h = BlockFields /\ h.size = size /\ h.allocated = FALSE /\ h.bucket = 0
    BY DEF h, BlockFields
  <2>5. /\ p.cursor \in Nat /\ lo <= p.cursor /\ BlocksOK(H, lo, hi)
        /\ \A x \in DOMAIN H : /\ EndOf(H, x) <= p.cursor /\ ~ H[x].allocated
                               /\ H[x].bucket \in UsedBuckets /\ H[x].bucket # 0
    BY <2>2 DEF LaidOut
  <2>6. a \in Nat /\ HeaderSize \in Nat
    BY <2>5, HeaderAtFacts, Constants
  <2>7. size \in Nat \ {0} /\ a + HeaderSize + size = hi
    BY <1>2, <2>6
  <2>8. IsBlock(h)
    BY <2>4, <2>7 DEF IsBlock
  <2>9. a + HeaderSize + h.size = hi /\ a + HeaderSize + h.size <= hi
    BY <2>4, <2>7
  <2> HIDE DEF a, size, H, G
  <2>10. BlocksOK(G, lo, hi) /\ Placed(H, a, h, G)
    <3>1. a = HeaderAt(p.cursor)
      BY DEF a
    <3>2. Behind(H, lo, hi, p.cursor, h)
      BY <2>5, <2>8, <2>9, <3>1 DEF Behind
    <3> QED
      BY <2>3, <2>5, <3>1, <3>2, BlockBehind
  <2>11. Tiled(G, hi)
    <3>1. \A x \in DOMAIN G : G[x].bucket = 0 => x = a
      BY <2>5, <2>10 DEF Placed
    <3>2. EndOf(G, a) = hi
      BY <2>9, <2>10 DEF Placed
    <3> QED
      BY <3>1, <3>2 DEF Tiled
  <2>12. KindsOK(G) /\ \A x \in DOMAIN G : ~ G[x].allocated
    BY <2>4, <2>5, <2>10 DEF Placed, KindsOK
  <2>13. FreeIn(G, 0) = {a} /\ \A i \in Buckets : FreeIn(G, i) \ {} = FreeIn(H, i)
    <3>1. \A i \in Buckets : i # 0
      BY BucketFacts
    <3> QED
      BY <2>4, <2>5, <2>10, <3>1 DEF Placed, FreeIn
  <2>14. ListOK(G, <<a>>, {})
    <3>1. <<a>> \in Seq(Nat) /\ Len(<<a>>) = 1 /\ DOMAIN <<a>> = {1} /\ <<a>>[1] = a
      BY <2>6
    <3>2. Range(<<a>>) = {a}
      BY <3>1 DEF Range
    <3>3. Ordered(G, <<a>>)
      BY <3>1 DEF Ordered
    <3> QED
      BY <2>13, <3>1, <3>2, <3>3 DEF ListOK
  <2>15. BucketsOK(G, q.bucket_free_list, q.bucket_free, {})
    BY <2>2, <2>3, <2>13, BucketsWithout DEF H
  <2>16. Divided(q, lo, hi)
    BY <2>3, <2>10, <2>11, <2>12, <2>14, <2>15 DEF Divided, G
  <2> QED
    BY <1>2, <2>3, <2>16 DEF q
<1> QED
  BY <1>1, <1>2

(* A pool nobody has used yet *)
Fresh(q) == PoolOK(q) /\ AllocatedIn(q.headers) = {}

Marked(H, B, lo, hi) ==
    /\ DOMAIN B = lo .. hi - 1
    /\ \A b \in lo .. hi - 1 : IF b \in UNION { HeaderBytes(a) : a \in DOMAIN H }
                               THEN B[b] = Header ELSE B[b] \in {Zero, Junk}

LEMMA FreshPool ==
    ASSUME NEW p, NEW lo \in Nat, NEW hi \in Nat, hi <= SizeMax, Divided(p, lo, hi),
           NEW B, Marked(p.headers, B, lo, hi),
           NEW q, q = [initialized |-> TRUE, start |-> lo, end |-> hi, headers |-> p.headers, bytes |-> B,
                       free_list |-> p.free_list, bucket_free_list |-> p.bucket_free_list,
                       bucket_free |-> p.bucket_free, total_used |-> 0, fallback_used |-> 0]
    PROVE  Fresh(q)
<1> DEFINE H == p.headers
           marks == UNION { HeaderBytes(a) : a \in DOMAIN H }
<1>1. /\ DOMAIN q = PoolFields /\ q.initialized = TRUE /\ q.start = lo /\ q.end = hi /\ q.headers = H
      /\ q.bytes = B /\ q.free_list = p.free_list /\ q.bucket_free_list = p.bucket_free_list
      /\ q.bucket_free = p.bucket_free /\ q.total_used = 0 /\ q.fallback_used = 0
  BY DEF PoolFields
<1>2. /\ BlocksOK(H, lo, hi) /\ Tiled(H, hi) /\ KindsOK(H)
      /\ ListOK(H, p.free_list, {}) /\ BucketsOK(H, p.bucket_free_list, p.bucket_free, {})
      /\ \A a \in DOMAIN H : ~ H[a].allocated
  BY DEF Divided
<1>3. /\ DOMAIN B = lo .. hi - 1
      /\ \A b \in lo .. hi - 1 : IF b \in marks THEN B[b] = Header ELSE B[b] \in {Zero, Junk}
  BY DEF Marked
<1>4. BytesOK(B, lo, hi)
  BY <1>3 DEF BytesOK, Tags
<1>5. Clean(H, B)
  <2> SUFFICES ASSUME NEW a \in DOMAIN H, NEW b \in Payload(a, H[a].size) PROVE B[b] \in {Zero, Junk}
    BY DEF Clean
  <2>1. b \in lo .. hi - 1
    BY <1>2, BlockFacts
  <2>2. ASSUME NEW c \in DOMAIN H, b \in HeaderBytes(c) PROVE FALSE
    <3>1. CASE c = a
      <4>1. a \in Nat /\ H[a].size \in Nat /\ HeaderSize \in Nat
        BY <1>2, BlockFacts, Constants
      <4> QED
        BY <2>2, <3>1, <4>1 DEF Payload, HeaderBytes
    <3>2. CASE c # a
      <4>1. Payload(a, H[a].size) \cap HeaderBytes(c) = {}
        BY <1>2, <3>2, BlocksApart
      <4> QED
        BY <2>2, <4>1
    <3> QED
      BY <3>1, <3>2
  <2>3. b \notin marks
    BY <2>2
  <2> QED
    BY <1>3, <2>1, <2>3
<1>6. ShapeOK(q, {})
  BY <1>1, <1>2, <1>4, <1>5 DEF ShapeOK
<1>7. AllocatedIn(H) = {} /\ ListAllocated(H) = {}
  BY <1>2 DEF AllocatedIn, ListAllocated
<1>8. Used(H, {}) = {} /\ Cardinality({}) = 0
  BY FS_EmptySet DEF Used
<1>9. CountersOK(q)
  BY <1>1, <1>7, <1>8 DEF CountersOK
<1> QED
  BY <1>1, <1>6, <1>7, <1>9 DEF Fresh, PoolOK

(* noxtls_mem_init *)
LEMMA InitializedOK ==
    ASSUME mode \in Modes, NEW buffer \in CallerBuffers \cup {DefaultBuffer}
    PROVE  Initialized(buffer) = Uninitialized \/ Fresh(Initialized(buffer))
<1> DEFINE lo == buffer.start
           hi == buffer.start + buffer.size
           empty == [failed |-> buffer.size <= HeaderSize, cursor |-> buffer.start,
                     end |-> hi, headers |-> << >>, free_list |-> << >>,
                     bucket_free_list |-> << >>, bucket_free |-> << >>]
           buckets == IF mode = "legacy" THEN empty ELSE InitBuckets(empty)
           p == IF mode = "buckets" THEN buckets ELSE InitFallback(buckets)
           marks == UNION { HeaderBytes(a) : a \in DOMAIN p.headers }
           blank == [b \in lo .. hi - 1 |-> IF buffer = DefaultBuffer THEN Zero ELSE Junk]
           B == Fill(blank, marks, Header)
           q == [initialized |-> TRUE, start |-> lo, end |-> hi, headers |-> p.headers, bytes |-> B,
                 free_list |-> p.free_list, bucket_free_list |-> p.bucket_free_list,
                 bucket_free |-> p.bucket_free, total_used |-> 0, fallback_used |-> 0]
<1>1. Initialized(buffer) = IF p.failed THEN Uninitialized ELSE q
  BY DEF Initialized
<1>2. lo \in Nat /\ hi \in Nat /\ hi <= SizeMax /\ buffer.size \in Nat /\ mode \in {"legacy", "buckets", "hybrid"}
  BY PoolAssumption
<1>3. /\ DOMAIN empty = BuildFields /\ empty.end = hi /\ empty.failed \in BOOLEAN /\ empty.cursor = lo
      /\ empty.headers = << >> /\ empty.free_list = << >>
      /\ empty.bucket_free_list = << >> /\ empty.bucket_free = << >>
  BY DEF BuildFields
<1> HIDE DEF empty, lo, hi
<1>4. /\ DOMAIN buckets = BuildFields /\ buckets.end = hi /\ buckets.failed \in BOOLEAN
      /\ ~ buckets.failed => /\ LaidOut(buckets, lo, hi)
                             /\ BucketsOK(buckets.headers, buckets.bucket_free_list, buckets.bucket_free, {})
  <2>1. CASE mode = "legacy"
    <3>1. buckets = empty
      BY <2>1
    <3>2. DOMAIN empty.headers = {}
      BY <1>3
    <3>3. LaidOut(empty, lo, hi)
      <4>1. BlocksOK(empty.headers, lo, hi) /\ lo <= lo
        BY <1>2, <3>2 DEF BlocksOK
      <4> QED
        BY <1>2, <1>3, <3>2, <4>1 DEF LaidOut
    <3>4. BucketsOK(empty.headers, empty.bucket_free_list, empty.bucket_free, {})
      BY <1>3, <2>1 DEF BucketsOK, UsedBuckets
    <3> QED
      BY <1>3, <3>1, <3>3, <3>4
  <2>2. CASE mode # "legacy"
    <3>1. buckets = InitBuckets(empty)
      BY <2>2
    <3> QED
      BY <1>2, <1>3, <2>2, <3>1, InitBucketsOK
  <2> QED
    BY <2>1, <2>2
<1> HIDE DEF buckets
<1>5. p.failed \in BOOLEAN /\ (~ p.failed => Divided(p, lo, hi))
  <2>1. CASE mode = "buckets"
    BY <1>2, <1>4, <2>1, BucketsOnly
  <2>2. CASE mode # "buckets"
    <3>1. p = InitFallback(buckets)
      BY <2>2
    <3> QED
      BY <1>2, <1>4, <2>2, <3>1, InitFallbackOK
  <2> QED
    BY <2>1, <2>2
<1> HIDE DEF p
<1>6. CASE p.failed
  BY <1>1, <1>6
<1>7. CASE ~ p.failed
  <2>1. Divided(p, lo, hi)
    BY <1>5, <1>7
  <2> HIDE DEF marks
  <2>2. DOMAIN blank = lo .. hi - 1 /\ \A b \in lo .. hi - 1 : blank[b] \in {Zero, Junk}
    OBVIOUS
  <2> HIDE DEF blank
  <2>3. DOMAIN B = DOMAIN blank /\ \A b \in DOMAIN blank : B[b] = IF b \in marks THEN Header ELSE blank[b]
    BY FillFacts
  <2> HIDE DEF B
  <2>4. /\ DOMAIN B = lo .. hi - 1
        /\ \A b \in lo .. hi - 1 : IF b \in marks THEN B[b] = Header ELSE B[b] \in {Zero, Junk}
    BY <2>2, <2>3
  <2>5. Marked(p.headers, B, lo, hi)
    BY <2>4 DEF marks, Marked
  <2>6. Fresh(q)
    BY <1>2, <2>1, <2>5, FreshPool
  <2> QED
    BY <1>1, <1>7, <2>6
<1> QED
  BY <1>5, <1>6, <1>7

-----------------------------------------------------------------------------
(* What callers hold, across the operations *)

LEMMA PointerFacts ==
    ASSUME NEW p, PoolOK(p), NEW held, LiveOK(p, held)
    PROVE  /\ \A ptr \in DOMAIN held :
                 /\ ptr \in Nat /\ ptr - HeaderSize \in AllocatedIn(p.headers)
                 /\ ptr - HeaderSize \in Nat /\ (ptr - HeaderSize) + HeaderSize = ptr
                 /\ HoldOK(p, ptr, held[ptr])
           /\ \A a \in AllocatedIn(p.headers) :
                 a \in Nat /\ a + HeaderSize \in DOMAIN held /\ (a + HeaderSize) - HeaderSize = a
<1>1. BlocksOK(p.headers, p.start, p.end) /\ p.start \in Nat /\ p.end \in Nat
  BY ShapeParts DEF PoolOK
<1>2. \A a \in AllocatedIn(p.headers) : a \in Nat
  BY <1>1, BlockFacts DEF AllocatedIn
<1>3. HeaderSize \in Nat
  BY Constants
<1>4. DOMAIN held = { a + HeaderSize : a \in AllocatedIn(p.headers) }
  BY DEF LiveOK
<1>5. ASSUME NEW ptr \in DOMAIN held
      PROVE  /\ ptr \in Nat /\ ptr - HeaderSize \in AllocatedIn(p.headers)
             /\ ptr - HeaderSize \in Nat /\ (ptr - HeaderSize) + HeaderSize = ptr
  <2>1. PICK a \in AllocatedIn(p.headers) : ptr = a + HeaderSize
    BY <1>4, <1>5
  <2>2. a \in Nat
    BY <1>2, <2>1
  <2>3. ptr - HeaderSize = a /\ ptr \in Nat /\ (ptr - HeaderSize) + HeaderSize = ptr
    BY <1>3, <2>1, <2>2
  <2> QED
    BY <2>1, <2>2, <2>3
<1>6. \A a \in AllocatedIn(p.headers) :
          a \in Nat /\ a + HeaderSize \in DOMAIN held /\ (a + HeaderSize) - HeaderSize = a
  BY <1>2, <1>3, <1>4
<1> QED
  BY <1>5, <1>6 DEF LiveOK

LEMMA PutFacts ==
    ASSUME NEW f, NEW x, NEW v
    PROVE  /\ DOMAIN Put(f, x, v) = DOMAIN f \cup {x} /\ Put(f, x, v)[x] = v
           /\ \A y \in DOMAIN f \ {x} : Put(f, x, v)[y] = f[y]
  BY DEF Put

(* A new block: what noxtls_malloc and noxtls_calloc end with *)
LEMMA GrowOK ==
    ASSUME NEW p, PoolOK(p), NEW held, LiveOK(p, held), NEW q, NEW a, NEW size \in Nat,
           Allocation(p, q, a, size), NEW owner, NEW tag \in Owners \cup {Zero}
    PROVE  LET w == Written(q, a + HeaderSize, 0, size, tag)
           IN  /\ PoolOK(w)
               /\ LiveOK(w, Put(held, a + HeaderSize, [owner |-> owner, size |-> size, tag |-> tag]))
<1> DEFINE w == Written(q, a + HeaderSize, 0, size, tag)
           new == [owner |-> owner, size |-> size, tag |-> tag]
           ptr == a + HeaderSize
           now == Put(held, ptr, new)
<1>1. /\ PoolOK(q) /\ a \in DOMAIN q.headers /\ a \notin AllocatedIn(p.headers)
      /\ AllocatedIn(q.headers) = AllocatedIn(p.headers) \cup {a}
      /\ q.headers[a].size >= size /\ Untouched(p, q, AllocatedIn(p.headers))
  BY DEF Allocation
<1>2. /\ BlocksOK(q.headers, q.start, q.end) /\ q.start \in Nat /\ q.end \in Nat
      /\ BytesOK(q.bytes, q.start, q.end)
  BY <1>1, ShapeParts DEF PoolOK
<1>3. /\ a \in Nat /\ q.headers[a].size \in Nat /\ Payload(a, q.headers[a].size) \subseteq DOMAIN q.bytes
      /\ HeaderSize \in Nat
  BY <1>1, <1>2, BlockFacts, Constants DEF BytesOK
<1>4. /\ Rewritten(q, w, a)
      /\ \A b \in DOMAIN q.bytes :
            w.bytes[b] = IF b \in a + HeaderSize + 0 .. a + HeaderSize + size - 1 THEN tag ELSE q.bytes[b]
  <2>1. a \in AllocatedIn(q.headers) /\ size <= q.headers[a].size /\ tag \in Tags /\ 0 \in Nat
    BY <1>1, <1>3 DEF Tags
  <2> QED
    BY <1>1, <2>1, WrittenOK
<1> HIDE DEF w
<1>5. PoolOK(w) /\ Untouched(q, w, AllocatedIn(q.headers) \ {a})
  BY <1>1, <1>4, RewrittenOK
<1>6. w.headers = q.headers
  BY <1>4 DEF Rewritten
<1>7. DOMAIN new = LiveFields /\ new.size = size /\ new.tag = tag
  BY DEF LiveFields
<1> HIDE DEF new
<1>8. DOMAIN now = DOMAIN held \cup {ptr} /\ now[ptr] = new /\ \A y \in DOMAIN held \ {ptr} : now[y] = held[y]
  <2> HIDE DEF ptr
  <2> QED
    BY DEF Put
<1>9. DOMAIN held = { x + HeaderSize : x \in AllocatedIn(p.headers) }
  BY DEF LiveOK
<1>10. DOMAIN now = { x + HeaderSize : x \in AllocatedIn(w.headers) }
  BY <1>1, <1>6, <1>8, <1>9
<1> HIDE DEF now
<1>11. HoldOK(w, ptr, new)
  <2>1. ptr - HeaderSize = a
    BY <1>3
  <2>2. size <= w.headers[ptr - HeaderSize].size
    BY <1>1, <1>3, <1>6, <2>1
  <2>3. ASSUME NEW b \in ptr .. ptr + size - 1 PROVE w.bytes[b] = tag
    <3>1. b \in a + HeaderSize + 0 .. a + HeaderSize + size - 1
      BY <1>3
    <3>2. b \in Payload(a, q.headers[a].size)
      BY <1>1, <1>3 DEF Payload
    <3> QED
      BY <1>3, <1>4, <3>1, <3>2
  <2> QED
    BY <1>7, <2>2, <2>3 DEF HoldOK
<1>12. ASSUME NEW x \in DOMAIN held, x # ptr PROVE HoldOK(w, x, now[x])
  <2>1. /\ x \in Nat /\ x - HeaderSize \in AllocatedIn(p.headers) /\ HoldOK(p, x, held[x])
    BY PointerFacts
  <2>2. AllocatedIn(p.headers) \subseteq DOMAIN p.headers /\ AllocatedIn(q.headers) \ {a} \subseteq DOMAIN q.headers
    BY DEF AllocatedIn
  <2>3. HoldOK(q, x, held[x])
    BY <1>1, <2>1, <2>2, HoldKept
  <2>4. x - HeaderSize \in AllocatedIn(q.headers) \ {a}
    BY <1>1, <2>1
  <2>5. HoldOK(w, x, held[x])
    BY <1>1, <1>5, <2>1, <2>2, <2>3, <2>4, HoldKept
  <2> QED
    BY <1>8, <1>12, <2>5
<1>13. LiveOK(w, now)
  BY <1>8, <1>10, <1>11, <1>12 DEF LiveOK
<1> QED
  BY <1>5, <1>13 DEF w, now, new

(* A block given back: noxtls_free *)
LEMMA ShrinkOK ==
    ASSUME NEW p, PoolOK(p), NEW held, LiveOK(p, held), NEW ptr \in DOMAIN held
    PROVE  /\ Release(p, Free(p, ptr), ptr - HeaderSize)
           /\ PoolOK(Free(p, ptr)) /\ LiveOK(Free(p, ptr), Restrict(held, DOMAIN held \ {ptr}))
<1> DEFINE q == Free(p, ptr)
           now == Restrict(held, DOMAIN held \ {ptr})
           a == ptr - HeaderSize
<1>1. ptr \in Nat /\ a \in AllocatedIn(p.headers) /\ a \in Nat /\ a + HeaderSize = ptr
  BY PointerFacts
<1>2. Release(p, q, a)
  BY <1>1, FreeOK
<1> HIDE DEF q
<1>3. /\ PoolOK(q) /\ AllocatedIn(q.headers) = AllocatedIn(p.headers) \ {a}
      /\ Untouched(p, q, AllocatedIn(p.headers) \ {a})
  BY <1>2 DEF Release
<1>4. DOMAIN now = DOMAIN held \ {ptr} /\ \A x \in DOMAIN held \ {ptr} : now[x] = held[x]
  BY DEF Restrict
<1> HIDE DEF now
<1>5. DOMAIN held = { x + HeaderSize : x \in AllocatedIn(p.headers) }
  BY DEF LiveOK
<1>6. \A x \in AllocatedIn(p.headers) : x + HeaderSize = ptr <=> x = a
  <2>1. \A x \in AllocatedIn(p.headers) : x \in Nat /\ (x + HeaderSize) - HeaderSize = x
    BY PointerFacts
  <2> QED
    BY <1>1, <2>1
<1>7. DOMAIN now = { x + HeaderSize : x \in AllocatedIn(q.headers) }
  BY <1>3, <1>4, <1>5, <1>6
<1>8. ASSUME NEW x \in DOMAIN now PROVE HoldOK(q, x, now[x])
  <2>1. x \in DOMAIN held /\ x # ptr
    BY <1>4
  <2>2. /\ x \in Nat /\ x - HeaderSize \in AllocatedIn(p.headers) /\ HoldOK(p, x, held[x])
        /\ (x - HeaderSize) + HeaderSize = x
    BY <2>1, PointerFacts
  <2>3. x - HeaderSize # a
    BY <1>1, <2>1, <2>2
  <2>4. AllocatedIn(p.headers) \ {a} \subseteq DOMAIN p.headers
    BY DEF AllocatedIn
  <2>5. HoldOK(q, x, held[x])
    BY <1>3, <2>2, <2>3, <2>4, HoldKept
  <2> QED
    BY <1>4, <2>1, <2>5
<1>9. LiveOK(q, now)
  BY <1>7, <1>8 DEF LiveOK
<1> QED
  BY <1>2, <1>3, <1>9 DEF q, now, a

(* A block that is kept: noxtls_realloc to a size it holds *)
LEMMA KeepOK ==
    ASSUME NEW p, PoolOK(p), NEW held, LiveOK(p, held), NEW ptr \in DOMAIN held, NEW size \in Nat,
           size <= p.headers[ptr - HeaderSize].size
    PROVE  LET w == Written(p, ptr, held[ptr].size, size, held[ptr].tag)
           IN  PoolOK(w) /\ LiveOK(w, [held EXCEPT ![ptr].size = size])
<1> DEFINE hold == held[ptr]
           w == Written(p, ptr, hold.size, size, hold.tag)
           new == [hold EXCEPT !.size = size]
           now == [held EXCEPT ![ptr] = new]
           a == ptr - HeaderSize
<1>1. /\ ptr \in Nat /\ a \in AllocatedIn(p.headers) /\ a \in Nat /\ a + HeaderSize = ptr
      /\ HoldOK(p, ptr, hold)
  BY PointerFacts
<1>2. /\ DOMAIN hold = LiveFields /\ hold.size \in Nat /\ hold.tag \in Owners \cup {Zero}
      /\ \A b \in ptr .. ptr + hold.size - 1 : p.bytes[b] = hold.tag
  BY <1>1 DEF HoldOK
<1>3. /\ Rewritten(p, w, a)
      /\ \A b \in DOMAIN p.bytes :
            w.bytes[b] = IF b \in ptr + hold.size .. ptr + size - 1 THEN hold.tag ELSE p.bytes[b]
  <2>1. hold.tag \in Tags
    BY <1>2 DEF Tags
  <2> HIDE DEF hold
  <2>2. LET u == Written(p, a + HeaderSize, hold.size, size, hold.tag)
        IN  /\ Rewritten(p, u, a)
            /\ \A b \in DOMAIN p.bytes :
                  u.bytes[b] = IF b \in a + HeaderSize + hold.size .. a + HeaderSize + size - 1
                               THEN hold.tag ELSE p.bytes[b]
    BY <1>1, <1>2, <2>1, WrittenOK
  <2> QED
    BY <1>1, <2>2
<1> HIDE DEF w, hold
<1>4. PoolOK(w) /\ Untouched(p, w, AllocatedIn(p.headers) \ {a}) /\ w.headers = p.headers
  <2>1. w.headers = p.headers
    BY <1>3 DEF Rewritten
  <2> QED
    BY <1>3, <2>1, RewrittenOK
<1>5. DOMAIN new = LiveFields /\ new.size = size /\ new.tag = hold.tag
  BY <1>2 DEF LiveFields
<1> HIDE DEF new
<1>6. DOMAIN now = DOMAIN held /\ now[ptr] = new /\ \A x \in DOMAIN held \ {ptr} : now[x] = held[x]
  OBVIOUS
<1> HIDE DEF now
<1>7. HoldOK(w, ptr, new)
  <2>1. Payload(a, p.headers[a].size) \subseteq DOMAIN p.bytes /\ p.headers[a].size \in Nat
    <3>1. BlocksOK(p.headers, p.start, p.end) /\ p.start \in Nat /\ p.end \in Nat /\ BytesOK(p.bytes, p.start, p.end)
      BY ShapeParts DEF PoolOK
    <3>2. a \in DOMAIN p.headers
      BY <1>1 DEF AllocatedIn
    <3> QED
      BY <3>1, <3>2, BlockFacts DEF BytesOK
  <2>2. ASSUME NEW b \in ptr .. ptr + size - 1 PROVE w.bytes[b] = hold.tag
    <3>1. b \in Payload(a, p.headers[a].size)
      BY <1>1, <2>1 DEF Payload
    <3>2. b \in ptr + hold.size .. ptr + size - 1 \/ b \in ptr .. ptr + hold.size - 1
      BY <1>1, <1>2
    <3> QED
      BY <1>2, <1>3, <2>1, <3>1, <3>2
  <2> QED
    BY <1>2, <1>4, <1>5, <2>2 DEF HoldOK
<1>8. ASSUME NEW x \in DOMAIN held, x # ptr PROVE HoldOK(w, x, held[x])
  <2>1. /\ x \in Nat /\ x - HeaderSize \in AllocatedIn(p.headers) /\ HoldOK(p, x, held[x])
        /\ (x - HeaderSize) + HeaderSize = x
    BY PointerFacts
  <2>2. x - HeaderSize # a
    BY <1>1, <1>8, <2>1
  <2>3. AllocatedIn(p.headers) \ {a} \subseteq DOMAIN p.headers
    BY DEF AllocatedIn
  <2> QED
    BY <1>4, <2>1, <2>2, <2>3, HoldKept
<1>9. LiveOK(w, now)
  BY <1>4, <1>6, <1>7, <1>8 DEF LiveOK
<1> QED
  BY <1>4, <1>9 DEF w, now, new, hold

(* The old block copied into the new one *)
LEMMA CopiedOK ==
    ASSUME NEW p, PoolOK(p), NEW a \in AllocatedIn(p.headers), NEW n \in AllocatedIn(p.headers),
           p.headers[a].size <= p.headers[n].size
    PROVE  LET q == Copied(p, a + HeaderSize, n + HeaderSize, p.headers[a].size)
           IN  /\ Rewritten(p, q, n)
               /\ \A k \in 0 .. p.headers[a].size - 1 :
                     q.bytes[n + HeaderSize + k] = p.bytes[a + HeaderSize + k]
<1> DEFINE len == p.headers[a].size
           B == [b \in DOMAIN p.bytes |->
                    IF b \in n + HeaderSize .. n + HeaderSize + len - 1
                    THEN p.bytes[a + HeaderSize + b - (n + HeaderSize)] ELSE p.bytes[b]]
           q == Copied(p, a + HeaderSize, n + HeaderSize, len)
<1>1. /\ DOMAIN p = PoolFields /\ BlocksOK(p.headers, p.start, p.end)
      /\ p.start \in Nat /\ p.end \in Nat /\ BytesOK(p.bytes, p.start, p.end)
  BY ShapeParts DEF PoolOK
<1>2. a \in DOMAIN p.headers /\ n \in DOMAIN p.headers
  BY DEF AllocatedIn
<1>3. /\ a \in Nat /\ n \in Nat /\ len \in Nat /\ p.headers[n].size \in Nat /\ HeaderSize \in Nat
      /\ Payload(a, len) \subseteq DOMAIN p.bytes
      /\ Payload(n, p.headers[n].size) \subseteq DOMAIN p.bytes
  BY <1>1, <1>2, BlockFacts, Constants DEF BytesOK
<1>4. q = [p EXCEPT !.bytes = B]
  BY DEF Copied
<1>5. DOMAIN q = PoolFields /\ q.bytes = B
  BY <1>1, <1>4 DEF PoolFields
<1>6. /\ q.initialized = p.initialized /\ q.start = p.start /\ q.end = p.end /\ q.headers = p.headers
      /\ q.free_list = p.free_list /\ q.bucket_free_list = p.bucket_free_list
      /\ q.bucket_free = p.bucket_free /\ q.total_used = p.total_used /\ q.fallback_used = p.fallback_used
  BY <1>1, <1>4 DEF PoolFields
<1> HIDE DEF q
<1>7. ASSUME NEW b \in n + HeaderSize .. n + HeaderSize + len - 1
      PROVE  b \in Payload(n, p.headers[n].size) /\ a + HeaderSize + b - (n + HeaderSize) \in Payload(a, len)
  BY <1>3 DEF Payload
<1>8. DOMAIN B = DOMAIN p.bytes /\ \A b \in DOMAIN p.bytes : B[b] \in Tags
  BY <1>1, <1>3, <1>7 DEF BytesOK
<1>9. \A b \in DOMAIN p.bytes \ Payload(n, p.headers[n].size) : B[b] = p.bytes[b]
  BY <1>7
<1>10. Rewritten(p, q, n)
  BY <1>5, <1>6, <1>8, <1>9 DEF Rewritten
<1>11. ASSUME NEW k \in 0 .. len - 1
       PROVE  q.bytes[n + HeaderSize + k] = p.bytes[a + HeaderSize + k]
  <2>1. /\ n + HeaderSize + k \in n + HeaderSize .. n + HeaderSize + len - 1
        /\ a + HeaderSize + (n + HeaderSize + k) - (n + HeaderSize) = a + HeaderSize + k
    BY <1>3
  <2>2. n + HeaderSize + k \in DOMAIN p.bytes
    BY <1>3, <1>7, <2>1
  <2> QED
    BY <1>5, <2>1, <2>2
<1> QED
  BY <1>10, <1>11 DEF q

(* A block that is moved: noxtls_realloc to a size it does not hold *)
LEMMA MoveOK ==
    ASSUME NEW p, PoolOK(p), NEW held, LiveOK(p, held), NEW ptr \in DOMAIN held, NEW size \in Nat,
           size > p.headers[ptr - HeaderSize].size,
           NEW q, NEW n, Allocation(p, q, n, size)
    PROVE  LET moved == Moved(q, ptr, n + HeaderSize, p.headers[ptr - HeaderSize].size)
               w == Written(moved, n + HeaderSize, held[ptr].size, size, held[ptr].tag)
           IN  /\ PoolOK(w)
               /\ LiveOK(w, Put(Restrict(held, DOMAIN held \ {ptr}), n + HeaderSize,
                                [held[ptr] EXCEPT !.size = size]))
<1> DEFINE a == ptr - HeaderSize
           hold == held[ptr]
           len == p.headers[a].size
           new == n + HeaderSize
           copy == Copied(q, ptr, new, len)
           moved == Free(copy, ptr)
           w == Written(moved, new, hold.size, size, hold.tag)
           block == [hold EXCEPT !.size = size]
           rest == Restrict(held, DOMAIN held \ {ptr})
           now == Put(rest, new, block)
<1>1. /\ ptr \in Nat /\ a \in AllocatedIn(p.headers) /\ a \in Nat /\ a + HeaderSize = ptr
      /\ HoldOK(p, ptr, hold)
  BY PointerFacts
<1>2. /\ DOMAIN hold = LiveFields /\ hold.size \in Nat /\ hold.tag \in Owners \cup {Zero}
      /\ hold.size <= len /\ \A b \in ptr .. ptr + hold.size - 1 : p.bytes[b] = hold.tag
  BY <1>1 DEF HoldOK
<1>3. /\ PoolOK(q) /\ n \notin AllocatedIn(p.headers) /\ n \in AllocatedIn(q.headers) /\ n # a
      /\ AllocatedIn(q.headers) = AllocatedIn(p.headers) \cup {n} /\ n \in DOMAIN q.headers
      /\ q.headers[n].size >= size /\ Untouched(p, q, AllocatedIn(p.headers))
  BY <1>1 DEF Allocation
<1>4. /\ n \in Nat /\ q.headers[n].size \in Nat /\ HeaderSize \in Nat
      /\ Payload(n, q.headers[n].size) \subseteq DOMAIN q.bytes
  <2>1. BlocksOK(q.headers, q.start, q.end) /\ q.start \in Nat /\ q.end \in Nat /\ BytesOK(q.bytes, q.start, q.end)
    BY <1>3, ShapeParts DEF PoolOK
  <2> QED
    BY <1>3, <2>1, BlockFacts, Constants DEF BytesOK
<1>5. /\ a \in AllocatedIn(q.headers) /\ q.headers[a].size = len /\ len \in Nat /\ len < size
      /\ \A b \in Payload(a, len) : q.bytes[b] = p.bytes[b]
  <2>1. p.headers[a].size \in Nat
    <3>1. BlocksOK(p.headers, p.start, p.end) /\ p.start \in Nat /\ p.end \in Nat
      BY ShapeParts DEF PoolOK
    <3>2. a \in DOMAIN p.headers
      BY <1>1 DEF AllocatedIn
    <3> QED
      BY <3>1, <3>2, BlockFacts
  <2> QED
    BY <1>1, <1>3, <2>1 DEF Untouched
<1> HIDE DEF len, hold
<1>6. /\ Rewritten(q, copy, n)
      /\ \A k \in 0 .. len - 1 : copy.bytes[new + k] = q.bytes[ptr + k]
  <2>1. q.headers[a].size <= q.headers[n].size
    BY <1>3, <1>4, <1>5
  <2>2. LET c == Copied(q, a + HeaderSize, n + HeaderSize, q.headers[a].size)
        IN  /\ Rewritten(q, c, n)
            /\ \A k \in 0 .. q.headers[a].size - 1 :
                  c.bytes[n + HeaderSize + k] = q.bytes[a + HeaderSize + k]
    BY <1>3, <1>5, <2>1, CopiedOK
  <2> QED
    BY <1>1, <1>5, <2>2
<1> HIDE DEF copy
<1>7. PoolOK(copy) /\ copy.headers = q.headers /\ Untouched(q, copy, AllocatedIn(q.headers) \ {n})
  <2>1. copy.headers = q.headers
    BY <1>6 DEF Rewritten
  <2> QED
    BY <1>3, <1>6, <2>1, RewrittenOK
<1>8. Release(copy, moved, a)
  BY <1>5, <1>7, FreeOK
<1> HIDE DEF moved
<1>9. /\ PoolOK(moved) /\ AllocatedIn(moved.headers) = AllocatedIn(q.headers) \ {a}
      /\ Untouched(copy, moved, AllocatedIn(q.headers) \ {a})
  BY <1>7, <1>8 DEF Release
<1>10. /\ n \in AllocatedIn(moved.headers) /\ moved.headers[n] = q.headers[n] /\ n \in DOMAIN moved.headers
       /\ \A b \in Payload(n, q.headers[n].size) : moved.bytes[b] = copy.bytes[b]
  BY <1>3, <1>7, <1>9 DEF Untouched
<1>11. /\ Rewritten(moved, w, n)
       /\ \A b \in DOMAIN moved.bytes :
             w.bytes[b] = IF b \in new + hold.size .. new + size - 1 THEN hold.tag ELSE moved.bytes[b]
  <2>1. hold.tag \in Tags /\ size <= moved.headers[n].size
    BY <1>2, <1>3, <1>4, <1>10 DEF Tags
  <2> QED
    BY <1>2, <1>9, <1>10, <2>1, WrittenOK
<1> HIDE DEF w
<1>12. /\ PoolOK(w) /\ w.headers = moved.headers
       /\ Untouched(moved, w, AllocatedIn(moved.headers) \ {n})
  <2>1. w.headers = moved.headers
    BY <1>11 DEF Rewritten
  <2> QED
    BY <1>9, <1>11, <2>1, RewrittenOK
<1>13. DOMAIN block = LiveFields /\ block.size = size /\ block.tag = hold.tag
  BY <1>2 DEF LiveFields
<1> HIDE DEF block
<1>14. DOMAIN rest = DOMAIN held \ {ptr} /\ \A x \in DOMAIN held \ {ptr} : rest[x] = held[x]
  BY DEF Restrict
<1> HIDE DEF rest
<1>15. /\ DOMAIN now = (DOMAIN held \ {ptr}) \cup {new} /\ now[new] = block
       /\ \A x \in DOMAIN held \ {ptr, new} : now[x] = held[x]
  <2> HIDE DEF new
  <2> QED
    BY <1>14 DEF Put
<1> HIDE DEF now
<1>16. DOMAIN now = { x + HeaderSize : x \in AllocatedIn(w.headers) }
  <2>1. DOMAIN held = { x + HeaderSize : x \in AllocatedIn(p.headers) }
    BY DEF LiveOK
  <2>2. \A x \in AllocatedIn(p.headers) : x + HeaderSize = ptr <=> x = a
    <3>1. \A x \in AllocatedIn(p.headers) : x \in Nat /\ (x + HeaderSize) - HeaderSize = x
      BY PointerFacts
    <3> QED
      BY <1>1, <3>1
  <2>3. AllocatedIn(w.headers) = (AllocatedIn(p.headers) \ {a}) \cup {n}
    BY <1>3, <1>9, <1>12
  <2> QED
    BY <1>15, <2>1, <2>2, <2>3
<1>17. HoldOK(w, new, block)
  <2>1. new - HeaderSize = n
    BY <1>4
  <2>2. size <= w.headers[new - HeaderSize].size
    BY <1>3, <1>4, <1>10, <1>12, <2>1
  <2>3. ASSUME NEW b \in new .. new + size - 1 PROVE w.bytes[b] = hold.tag
    <3>1. b \in Payload(n, q.headers[n].size) /\ b \in DOMAIN moved.bytes
      <4>1. b \in Payload(n, q.headers[n].size)
        BY <1>3, <1>4 DEF Payload
      <4>2. BlocksOK(moved.headers, moved.start, moved.end) /\ moved.start \in Nat /\ moved.end \in Nat
            /\ BytesOK(moved.bytes, moved.start, moved.end)
        BY <1>9, ShapeParts DEF PoolOK
      <4>3. Payload(n, moved.headers[n].size) \subseteq DOMAIN moved.bytes
        BY <1>10, <4>2, BlockFacts DEF BytesOK
      <4> QED
        BY <1>10, <4>1, <4>3
    <3>2. CASE b \in new + hold.size .. new + size - 1
      BY <1>11, <3>1, <3>2
    <3>3. CASE b \notin new + hold.size .. new + size - 1
      <4>1. PICK k \in 0 .. hold.size - 1 : b = new + k
        <5>1. b - new \in 0 .. hold.size - 1 /\ b = new + (b - new)
          BY <1>2, <1>4, <3>3
        <5> QED
          BY <5>1
      <4>2. k \in 0 .. len - 1 /\ ptr + k \in ptr .. ptr + hold.size - 1 /\ ptr + k \in Payload(a, len)
        BY <1>1, <1>2, <1>4, <1>5, <4>1 DEF Payload
      <4>3. w.bytes[b] = copy.bytes[b]
        BY <1>10, <1>11, <3>1, <3>3
      <4>4. copy.bytes[b] = q.bytes[ptr + k]
        BY <1>6, <4>1, <4>2
      <4> QED
        BY <1>2, <1>5, <4>2, <4>3, <4>4
    <3> QED
      BY <3>2, <3>3
  <2> QED
    BY <1>2, <1>13, <2>2, <2>3 DEF HoldOK
<1>18. ASSUME NEW x \in DOMAIN held, x # ptr, x # new PROVE HoldOK(w, x, now[x])
  <2> DEFINE c == x - HeaderSize
  <2>1. /\ x \in Nat /\ c \in AllocatedIn(p.headers) /\ HoldOK(p, x, held[x]) /\ c + HeaderSize = x
    BY PointerFacts
  <2>2. c # a /\ c # n
    BY <1>1, <1>3, <1>18, <2>1
  <2>3. /\ AllocatedIn(p.headers) \subseteq DOMAIN p.headers
        /\ AllocatedIn(q.headers) \ {n} \subseteq DOMAIN q.headers
        /\ AllocatedIn(q.headers) \ {a} \subseteq DOMAIN copy.headers
        /\ AllocatedIn(moved.headers) \ {n} \subseteq DOMAIN moved.headers
    BY <1>7 DEF AllocatedIn
  <2>4. HoldOK(q, x, held[x])
    BY <1>3, <2>1, <2>3, HoldKept
  <2>5. HoldOK(copy, x, held[x])
    BY <1>3, <1>7, <2>1, <2>2, <2>3, <2>4, HoldKept
  <2>6. HoldOK(moved, x, held[x])
    BY <1>3, <1>7, <1>9, <2>1, <2>2, <2>3, <2>5, HoldKept
  <2>7. c \in AllocatedIn(moved.headers) \ {n}
    BY <1>3, <1>9, <2>1, <2>2
  <2>8. HoldOK(w, x, held[x])
    BY <1>9, <1>12, <2>1, <2>3, <2>6, <2>7, HoldKept
  <2> QED
    BY <1>15, <1>18, <2>8
<1>19. LiveOK(w, now)
  BY <1>15, <1>16, <1>17, <1>18 DEF LiveOK
<1> QED
  BY <1>12, <1>19 DEF w, now, block, rest, moved, copy, hold, len, Moved

-----------------------------------------------------------------------------
(* The steps *)

LEMMA ModeKept ==
    ASSUME Inv, mode' = mode,
           \/ pool' = Uninitialized /\ DOMAIN live' = {}
           \/ PoolOK(pool') /\ LiveOK(pool', live')
    PROVE  Inv'
<1>1. UsedBuckets' = UsedBuckets
  BY DEF UsedBuckets
<1>2. ASSUME PoolOK(pool') PROVE PoolOK(pool)'
  BY <1>1, <1>2 DEF PoolOK, ShapeOK, KindsOK, BucketsOK
<1> QED
  BY <1>2 DEF Inv

(* The pool a call works on, after its lazy initialization *)
LEMMA ReadyOK ==
    ASSUME Inv
    PROVE  \/ ~ Ready.initialized /\ Ready = Uninitialized /\ DOMAIN live = {}
           \/ Ready.initialized /\ PoolOK(Ready) /\ LiveOK(Ready, live)
<1>1. ~ Uninitialized.initialized
  BY DEF Uninitialized
<1>2. CASE PoolOK(pool) /\ LiveOK(pool, live)
  <2>1. pool.initialized
    BY <1>2, ShapeParts DEF PoolOK
  <2> QED
    BY <1>2, <2>1 DEF Ready
<1>3. CASE pool = Uninitialized /\ DOMAIN live = {}
  <2>1. Ready = Initialized(DefaultBuffer)
    BY <1>1, <1>3 DEF Ready
  <2>2. Initialized(DefaultBuffer) = Uninitialized \/ Fresh(Initialized(DefaultBuffer))
    BY InitializedOK DEF Inv
  <2>3. CASE Ready = Uninitialized
    BY <1>1, <1>3, <2>3
  <2>4. CASE Fresh(Ready)
    <3>1. PoolOK(Ready) /\ AllocatedIn(Ready.headers) = {}
      BY <2>4 DEF Fresh
    <3>2. Ready.initialized
      BY <3>1, ShapeParts DEF PoolOK
    <3>3. LiveOK(Ready, live)
      BY <1>3, <3>1 DEF LiveOK
    <3> QED
      BY <3>1, <3>2, <3>3
  <2> QED
    BY <2>1, <2>2, <2>3, <2>4
<1> QED
  BY <1>2, <1>3 DEF Inv

LEMMA MemInitInv ==
    ASSUME Inv, NEW buffer \in CallerBuffers, MemInit(buffer)
    PROVE  Inv'
<1>1. ~ pool.initialized /\ pool' = Initialized(buffer) /\ mode' = mode /\ live' = live
  BY DEF MemInit
<1>2. pool = Uninitialized /\ DOMAIN live = {}
  <2>1. ~ PoolOK(pool)
    BY <1>1, ShapeParts DEF PoolOK
  <2> QED
    BY <2>1 DEF Inv
<1>3. Initialized(buffer) = Uninitialized \/ Fresh(Initialized(buffer))
  BY InitializedOK DEF Inv
<1>4. CASE pool' = Uninitialized
  BY <1>1, <1>2, <1>4, ModeKept
<1>5. CASE Fresh(pool')
  <2>1. PoolOK(pool') /\ LiveOK(pool', live')
    BY <1>1, <1>2, <1>5 DEF Fresh, LiveOK
  <2> QED
    BY <1>1, <2>1, ModeKept
<1> QED
  BY <1>1, <1>3, <1>4, <1>5

LEMMA MemCleanupInv ==
    ASSUME Inv, MemCleanup
    PROVE  Inv'
<1>1. pool' = Uninitialized /\ live' = << >> /\ mode' = mode
  BY DEF MemCleanup
<1>2. DOMAIN live' = {}
  BY <1>1
<1> QED
  BY <1>1, <1>2, ModeKept

(* What noxtls_malloc and noxtls_calloc have in common *)
LEMMA AllocateInv ==
    ASSUME Inv, NEW size \in Nat, NEW owner, NEW tag \in Owners \cup {Zero}, mode' = mode,
           LET r == Allocate(Ready, size)
               ptr == r.header + HeaderSize
           IN  IF Ready.initialized /\ r.found
               THEN /\ pool' = Written(r.pool, ptr, 0, size, tag)
                    /\ live' = Put(live, ptr, [owner |-> owner, size |-> size, tag |-> tag])
               ELSE pool' = Ready /\ UNCHANGED live
    PROVE  Inv'
<1> DEFINE p == Ready
           r == Allocate(p, size)
<1>1. \/ ~ p.initialized /\ p = Uninitialized /\ DOMAIN live = {}
      \/ p.initialized /\ PoolOK(p) /\ LiveOK(p, live)
  BY ReadyOK
<1>2. CASE p.initialized /\ r.found
  <2>1. PoolOK(p) /\ LiveOK(p, live) /\ mode \in Modes
    BY <1>1, <1>2 DEF Inv
  <2>2. Allocation(p, r.pool, r.header, size)
    <3> HIDE DEF p
    <3> QED
      BY <1>2, <2>1, AllocateOK
  <2>3. /\ pool' = Written(r.pool, r.header + HeaderSize, 0, size, tag)
        /\ live' = Put(live, r.header + HeaderSize, [owner |-> owner, size |-> size, tag |-> tag])
    BY <1>2
  <2> HIDE DEF p, r
  <2>4. PoolOK(pool') /\ LiveOK(pool', live')
    BY <2>1, <2>2, <2>3, GrowOK
  <2> QED
    BY <2>4, ModeKept
<1>3. CASE ~ (p.initialized /\ r.found)
  <2>1. pool' = p /\ live' = live
    BY <1>3
  <2> HIDE DEF p
  <2> QED
    BY <1>1, <2>1, ModeKept
<1> QED
  BY <1>2, <1>3

LEMMA MallocInv ==
    ASSUME Inv, NEW owner \in Owners, NEW size \in Requests, Malloc(owner, size)
    PROVE  Inv'
<1>1. size \in Nat
  BY PoolAssumption
<1> QED
  BY <1>1, AllocateInv DEF Malloc

LEMMA CallocInv ==
    ASSUME Inv, NEW owner \in Owners, NEW nmemb \in {1, 2}, NEW size \in Requests,
           Calloc(owner, nmemb, size)
    PROVE  Inv'
<1>1. size \in Nat
  BY PoolAssumption
<1>2. nmemb * size \in Nat
  BY <1>1
<1>3. PICK total \in Nat : total = nmemb * size
  BY <1>2
<1> QED
  BY <1>3, AllocateInv DEF Calloc

(* A caller that holds a block works on a pool that is in order *)
LEMMA Holding ==
    ASSUME Inv, NEW ptr \in DOMAIN live
    PROVE  PoolOK(pool) /\ LiveOK(pool, live) /\ mode \in Modes
  BY DEF Inv

LEMMA ReleaseInv ==
    ASSUME Inv, NEW ptr \in DOMAIN live, ReleaseBlock(ptr), mode' = mode
    PROVE  Inv'
<1>1. PoolOK(pool) /\ LiveOK(pool, live)
  BY Holding
<1>2. PoolOK(Free(pool, ptr)) /\ LiveOK(Free(pool, ptr), Restrict(live, DOMAIN live \ {ptr}))
  BY <1>1, ShrinkOK
<1>3. PoolOK(pool') /\ LiveOK(pool', live')
  BY <1>2 DEF ReleaseBlock
<1> QED
  BY <1>3, ModeKept

LEMMA ReallocInv ==
    ASSUME Inv, NEW ptr \in DOMAIN live, NEW size \in Requests, Realloc(ptr, size)
    PROVE  Inv'
<1> DEFINE old_size == pool.headers[ptr - HeaderSize].size
           r == Allocate(pool, size)
           new == r.header + HeaderSize
           moved == Moved(r.pool, ptr, new, old_size)
<1>1. PoolOK(pool) /\ LiveOK(pool, live) /\ mode \in Modes
  BY Holding
<1>2. size \in Nat /\ mode' = mode
  BY PoolAssumption DEF Realloc
<1>3. CASE size = 0 /\ ReleaseBlock(ptr)
  BY <1>2, <1>3, ReleaseInv
<1>4. CASE /\ size > 0 /\ size <= old_size
           /\ pool' = Written(pool, ptr, live[ptr].size, size, live[ptr].tag)
           /\ live' = [live EXCEPT ![ptr].size = size]
  <2>1. PoolOK(pool') /\ LiveOK(pool', live')
    BY <1>1, <1>2, <1>4, KeepOK
  <2> QED
    BY <1>2, <2>1, ModeKept
<1>5. CASE /\ size > old_size /\ r.found
           /\ pool' = Written(moved, new, live[ptr].size, size, live[ptr].tag)
           /\ live' = Put(Restrict(live, DOMAIN live \ {ptr}), new, [live[ptr] EXCEPT !.size = size])
  <2>1. Allocation(pool, r.pool, r.header, size)
    BY <1>1, <1>2, <1>5, AllocateOK
  <2> HIDE DEF r
  <2>2. PoolOK(pool') /\ LiveOK(pool', live')
    BY <1>1, <1>2, <1>5, <2>1, MoveOK
  <2> QED
    BY <1>2, <2>2, ModeKept
<1> QED
  BY <1>3, <1>4, <1>5 DEF Realloc

LEMMA FreeStaleInv ==
    ASSUME Inv, NEW ptr \in DOMAIN pool.bytes, FreeStale(ptr)
    PROVE  Inv'
<1>1. PoolOK(pool) /\ LiveOK(pool, live)
  <2>1. DOMAIN Uninitialized.bytes = {}
    BY DEF Uninitialized
  <2> QED
    BY <2>1 DEF Inv
<1>2. ptr \in Int /\ HeaderSize \in Nat
  <2>1. BytesOK(pool.bytes, pool.start, pool.end) /\ pool.start \in Nat /\ pool.end \in Nat
    BY <1>1, ShapeParts DEF PoolOK
  <2> QED
    BY <2>1, Constants DEF BytesOK
<1>3. ~ HeaderValid(pool, ptr - HeaderSize)
  <2> SUFFICES ASSUME ptr - HeaderSize \in AllocatedIn(pool.headers) PROVE FALSE
    BY DEF HeaderValid, AllocatedIn
  <2>1. (ptr - HeaderSize) + HeaderSize \in DOMAIN live
    BY <1>1, PointerFacts
  <2>2. (ptr - HeaderSize) + HeaderSize = ptr
    BY <1>2
  <2> QED
    BY <2>1, <2>2 DEF FreeStale
<1>4. Free(pool, ptr) = pool
  BY <1>3 DEF Free
<1>5. pool' = pool /\ live' = live /\ mode' = mode
  BY <1>4 DEF FreeStale
<1> QED
  BY <1>1, <1>5, ModeKept

LEMMA InitInv == Init => Inv
<1> SUFFICES ASSUME Init PROVE Inv
  OBVIOUS
<1>1. DOMAIN live = {}
  BY DEF Init
<1> QED
  BY <1>1 DEF Init, Inv

LEMMA NextInv ==
    ASSUME Inv, [Next]_vars
    PROVE  Inv'
<1>1. CASE UNCHANGED vars
  <2>1. mode' = mode /\ pool' = pool /\ live' = live
    BY <1>1 DEF vars
  <2> QED
    BY <2>1, ModeKept DEF Inv
<1>2. CASE \E buffer \in CallerBuffers : MemInit(buffer)
  BY <1>2, MemInitInv
<1>3. CASE MemCleanup
  BY <1>3, MemCleanupInv
<1>4. CASE \E owner \in Owners, size \in Requests : Malloc(owner, size)
  BY <1>4, MallocInv
<1>5. CASE \E owner \in Owners, nmemb \in {1, 2}, size \in Requests : Calloc(owner, nmemb, size)
  BY <1>5, CallocInv
<1>6. CASE \E ptr \in DOMAIN live, size \in Requests : Realloc(ptr, size)
  BY <1>6, ReallocInv
<1>7. CASE \E ptr \in DOMAIN live : FreeLive(ptr)
  BY <1>7, ReleaseInv DEF FreeLive
<1>8. CASE \E ptr \in DOMAIN pool.bytes : FreeStale(ptr)
  BY <1>8, FreeStaleInv
<1> QED
  BY <1>1, <1>2, <1>3, <1>4, <1>5, <1>6, <1>7, <1>8 DEF Next

-----------------------------------------------------------------------------
(* From the invariant to the properties *)

LEMMA EmptyPool ==
    ASSUME pool = Uninitialized
    PROVE  /\ ~ pool.initialized /\ pool.start = 0 /\ pool.end = 0
           /\ DOMAIN pool.headers = {} /\ DOMAIN pool.bytes = {} /\ pool.free_list = << >>
           /\ DOMAIN pool.bucket_free_list = {} /\ DOMAIN pool.bucket_free = {}
           /\ pool.total_used = 0 /\ pool.fallback_used = 0
  BY DEF Uninitialized

LEMMA InvTypeOK ==
    ASSUME Inv
    PROVE  TypeOK
<1>1. mode \in Modes /\ SizeMax \in Nat
  BY Constants DEF Inv
<1>2. CASE pool = Uninitialized
  <2>1. DOMAIN pool.bytes = pool.start .. pool.end - 1
    <3>1. 0 .. 0 - 1 = {}
      OBVIOUS
    <3> QED
      BY <1>2, <3>1, EmptyPool
  <2>2. pool.total_used \in 0 .. SizeMax /\ pool.fallback_used \in 0 .. SizeMax
    BY <1>1, <1>2, EmptyPool
  <2>3. DOMAIN pool.bytes = {} /\ Headers = {}
    BY <1>2, EmptyPool DEF Headers
  <2> QED
    BY <1>1, <2>1, <2>2, <2>3 DEF TypeOK
<1>3. CASE PoolOK(pool)
  <2> DEFINE H == pool.headers
  <2>1. /\ BlocksOK(H, pool.start, pool.end) /\ BytesOK(pool.bytes, pool.start, pool.end)
        /\ pool.start \in Nat /\ pool.end \in Nat /\ pool.end <= SizeMax
    BY <1>3, ShapeParts DEF PoolOK
  <2>2. DOMAIN pool.bytes = pool.start .. pool.end - 1 /\ \A b \in DOMAIN pool.bytes : pool.bytes[b] \in Tags
    BY <2>1 DEF BytesOK
  <2>3. ASSUME NEW a \in DOMAIN H
        PROVE  /\ a \in DOMAIN pool.bytes /\ H[a].size \in 1 .. SizeMax
               /\ H[a].allocated \in BOOLEAN /\ H[a].bucket \in {0} \cup Buckets
    <3>1. /\ a \in Nat /\ H[a].size \in Nat \ {0} /\ EndOf(H, a) = a + HeaderSize + H[a].size
          /\ pool.start <= a /\ a < EndOf(H, a) /\ EndOf(H, a) <= pool.end /\ EndOf(H, a) \in Nat
      BY <2>1, BlockFacts
    <3>2. H[a].allocated \in BOOLEAN /\ H[a].bucket \in {0} \cup Buckets
      BY <2>1 DEF BlocksOK, IsBlock
    <3>3. HeaderSize \in Nat
      BY Constants
    <3>4. a \in DOMAIN pool.bytes
      BY <2>1, <2>2, <3>1
    <3>5. H[a].size \in 1 .. SizeMax
      BY <1>1, <2>1, <3>1, <3>3
    <3> QED
      BY <3>2, <3>4, <3>5
  <2>4. pool.total_used \in 0 .. SizeMax /\ pool.fallback_used \in 0 .. SizeMax
    <3>1. AllocatedIn(H) \subseteq DOMAIN H /\ ListAllocated(H) \subseteq DOMAIN H
      BY DEF AllocatedIn, ListAllocated
    <3>2. /\ Cardinality(Used(H, AllocatedIn(H))) \in Nat
          /\ Cardinality(Used(H, AllocatedIn(H))) <= pool.end
          /\ Cardinality(Used(H, ListAllocated(H))) \in Nat
          /\ Cardinality(Used(H, ListAllocated(H))) <= pool.end
      BY <2>1, <3>1, UsedFinite
    <3>3. /\ pool.total_used = Cardinality(Used(H, AllocatedIn(H)))
          /\ pool.fallback_used = Cardinality(Used(H, ListAllocated(H)))
      BY <1>3 DEF PoolOK, CountersOK
    <3> QED
      BY <1>1, <2>1, <3>2, <3>3
  <2> QED
    BY <1>1, <2>2, <2>3, <2>4 DEF TypeOK, Headers, Tags
<1> QED
  BY <1>2, <1>3 DEF Inv

LEMMA InvHeapConsistent ==
    ASSUME Inv
    PROVE  HeapConsistent
<1>1. CASE pool = Uninitialized /\ DOMAIN live = {}
  <2>1. Headers = {} /\ Allocated = {}
    BY <1>1, EmptyPool DEF Headers, Allocated
  <2>2. Tiling /\ PayloadsAligned
    BY <2>1 DEF Tiling, PayloadsAligned
  <2>3. pool.free_list = << >> /\ Len(pool.free_list) = 0 /\ Range(pool.free_list) = {}
    BY <1>1, EmptyPool DEF Range
  <2>4. FreeListsExact
    BY <1>1, <2>1, <2>3, EmptyPool DEF FreeListsExact
  <2>5. CountersExact
    <3>1. UNION { Payload(a, pool.headers[a].size) : a \in {} } = {}
      OBVIOUS
    <3>2. Cardinality({}) = 0
      BY FS_EmptySet
    <3>3. { a \in Allocated : pool.headers[a].bucket = 0 } = {}
      BY <2>1
    <3> QED
      BY <1>1, <2>1, <3>1, <3>2, <3>3, EmptyPool DEF CountersExact
  <2> QED
    BY <2>2, <2>4, <2>5 DEF HeapConsistent
<1>2. CASE PoolOK(pool) /\ LiveOK(pool, live)
  <2> DEFINE H == pool.headers
  <2>1. /\ BlocksOK(H, pool.start, pool.end) /\ Tiled(H, pool.end) /\ CountersOK(pool)
        /\ ListOK(H, pool.free_list, {})
        /\ BucketsOK(H, pool.bucket_free_list, pool.bucket_free, {})
    BY <1>2, ShapeParts DEF PoolOK
  <2>2. Allocated = AllocatedIn(H) /\ Headers = DOMAIN H
    BY DEF Allocated, Headers, AllocatedIn
  <2>3. Tiling
    BY <2>1 DEF Tiling, Headers, BlocksOK, Tiled
  <2>4. PayloadsAligned
    BY <2>1 DEF PayloadsAligned, Headers, BlocksOK, Aligned
  <2>5. FreeListsExact
    <3>1. { a + HeaderSize : a \in Allocated } = DOMAIN live
      BY <1>2, <2>2 DEF LiveOK
    <3>2. { a \in Headers : InList(a) } = Range(pool.free_list)
      BY <2>1 DEF ListOK, FreeIn, InList, Headers
    <3>3. \A k \in 1 .. Len(pool.free_list) - 1 : EndOf(H, pool.free_list[k]) < pool.free_list[k + 1]
      <4>1. Ordered(H, pool.free_list) /\ Len(pool.free_list) \in Nat
        BY <2>1 DEF ListOK
      <4> QED
        BY <4>1 DEF Ordered
    <3>4. \A i \in DOMAIN pool.bucket_free_list :
             /\ IsInjective(pool.bucket_free_list[i])
             /\ Range(pool.bucket_free_list[i]) = FreeIn(H, i)
      BY <2>1 DEF BucketsOK, BucketOK
    <3>5. \A i \in DOMAIN pool.bucket_free_list :
             FreeIn(H, i) = { a \in Headers \ Allocated : pool.headers[a].bucket = i }
      BY <2>2 DEF FreeIn, AllocatedIn
    <3> QED
      BY <3>1, <3>2, <3>3, <3>4, <3>5 DEF FreeListsExact
  <2>6. CountersExact
    <3>1. \A i \in DOMAIN pool.bucket_free : pool.bucket_free[i] = Len(pool.bucket_free_list[i])
      BY <2>1 DEF BucketsOK, BucketOK
    <3>2. ListAllocated(H) = { a \in Allocated : pool.headers[a].bucket = 0 }
      BY <2>2 DEF ListAllocated
    <3> QED
      BY <2>1, <2>2, <3>1, <3>2 DEF CountersExact, CountersOK, Used
  <2> QED
    BY <2>3, <2>4, <2>5, <2>6 DEF HeapConsistent
<1> QED
  BY <1>1, <1>2 DEF Inv

LEMMA InvBytesPrivate ==
    ASSUME Inv
    PROVE  BytesPrivate
<1>1. CASE pool = Uninitialized /\ DOMAIN live = {}
  BY <1>1, EmptyPool DEF BytesPrivate, DataIntact, NothingSurvives, Headers
<1>2. CASE PoolOK(pool) /\ LiveOK(pool, live)
  <2> DEFINE H == pool.headers
  <2>1. /\ BlocksOK(H, pool.start, pool.end) /\ pool.start \in Nat /\ pool.end \in Nat
        /\ BytesOK(pool.bytes, pool.start, pool.end) /\ Clean(H, pool.bytes)
    BY <1>2, ShapeParts DEF PoolOK
  <2>2. ASSUME NEW ptr \in DOMAIN live, NEW b \in ptr .. ptr + live[ptr].size - 1
        PROVE  b \in DOMAIN pool.bytes /\ pool.bytes[b] = live[ptr].tag
    <3> DEFINE a == ptr - HeaderSize
    <3>1. /\ ptr \in Nat /\ a \in AllocatedIn(H) /\ a \in Nat /\ a + HeaderSize = ptr
          /\ HoldOK(pool, ptr, live[ptr])
      BY <1>2, PointerFacts
    <3>2. live[ptr].size \in Nat /\ live[ptr].size <= H[a].size /\ pool.bytes[b] = live[ptr].tag
      BY <3>1 DEF HoldOK
    <3>3. H[a].size \in Nat /\ Payload(a, H[a].size) \subseteq DOMAIN pool.bytes
      BY <2>1, <3>1, BlockFacts DEF AllocatedIn, BytesOK
    <3>4. b \in Payload(a, H[a].size)
      BY <3>1, <3>2, <3>3 DEF Payload
    <3> QED
      BY <3>2, <3>3, <3>4
  <2>3. DataIntact
    BY <2>2 DEF DataIntact
  <2>4. NothingSurvives
    BY <2>1 DEF NothingSurvives, Headers, Allocated, Clean
  <2> QED
    BY <2>3, <2>4 DEF BytesPrivate
<1> QED
  BY <1>1, <1>2 DEF Inv

LEMMA InvFailsOnlyWhenFull ==
    ASSUME Inv
    PROVE  FailsOnlyWhenFull
<1> SUFFICES ASSUME NEW size \in Requests \ {0}, pool.initialized, ~ Allocate(pool, size).found,
                    NEW a \in Headers \ Allocated
             PROVE  \/ pool.headers[a].size < size
                    \/ /\ EndOf(pool.headers, a) = pool.end
                       /\ pool.headers[a].size < AlignUp(size)
  BY DEF FailsOnlyWhenFull
<1>1. PoolOK(pool) /\ mode \in Modes
  BY EmptyPool DEF Inv
<1>2. size \in Nat /\ size # 0
  BY PoolAssumption
<1>3. a \in FreeBlocks(pool.headers)
  BY DEF FreeBlocks, Headers, Allocated, AllocatedIn
<1>4. pool.headers[a].size < AlignUp(size)
  BY <1>1, <1>2, <1>3, AllocateOK
<1> QED
  BY <1>1, <1>2, <1>3, <1>4, FullPool

-----------------------------------------------------------------------------
(* The theorems *)

(* The inductive invariant: whatever is allocated, moved and freed in      *)
(* whatever order, the blocks, the lists, the counters and the bytes of    *)
(* the buffer stay in order, and callers hold exactly what is allocated.   *)
THEOREM PoolInvariant == Spec => []Inv
<1>1. Init => Inv
  BY InitInv
<1>2. Inv /\ [Next]_vars => Inv'
  BY NextInv
<1> QED
  BY <1>1, <1>2, PTL DEF Spec

(* Every header lies in the buffer, every size and counter in a size_t. *)
THEOREM PoolTypeCorrect == Spec => []TypeOK
<1>1. Inv => TypeOK
  BY InvTypeOK
<1> QED
  BY <1>1, PoolInvariant, PTL

(* noxtls_mem_alloc_fallback, noxtls_mem_coalesce_fallback and noxtls_free *)
(* keep the heap consistent: blocks tile the buffer and never overlap,     *)
(* payloads are aligned, each free block is in its list once, and the      *)
(* counters are those of the blocks callers hold.                          *)
THEOREM HeapStaysConsistent == Spec => []HeapConsistent
<1>1. Inv => HeapConsistent
  BY InvHeapConsistent
<1> QED
  BY <1>1, PoolInvariant, PTL

(* What a caller wrote stays until it frees the block, also when           *)
(* noxtls_realloc moves it, and nothing of it is left in free memory.      *)
THEOREM BytesStayPrivate == Spec => []BytesPrivate
<1>1. Inv => BytesPrivate
  BY InvBytesPrivate
<1> QED
  BY <1>1, PoolInvariant, PTL

(* noxtls_malloc answers NULL only when no free block can hold the request *)
(* (or only the last one of a buffer with an unaligned end could).         *)
THEOREM NullOnlyWhenFull == Spec => []FailsOnlyWhenFull
<1>1. Inv => FailsOnlyWhenFull
  BY InvFailsOnlyWhenFull
<1> QED
  BY <1>1, PoolInvariant, PTL

=============================================================================
