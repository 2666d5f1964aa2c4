---------------------------- MODULE MCMemoryPool ----------------------------
(* An instance of MemoryPool for TLC. *)
EXTENDS MemoryPool

CONSTANTS o1, o2, o3

MCModes == {"legacy", "buckets", "hybrid"}
MCBucketSizes == <<2, 3>>
MCBucketCounts == <<2, 1>>

(* The library's own pool, one of a caller that is neither aligned nor a   *)
(* multiple of the alignment, and one that is too small.                   *)
MCDefaultBuffer == [start |-> 2, size |-> 28]
MCCallerBuffers == {[start |-> 3, size |-> 28], [start |-> 2, size |-> 4]}

CallersAlike == Permutations(Owners)

=============================================================================
