SPECIFICATION Spec
CONSTANTS
    Alignment = 2
    HeaderSize = 2
    SizeMax = 31
    BucketSizes <- MCBucketSizes
    BucketCounts <- MCBucketCounts
    DefaultBuffer <- MCDefaultBuffer
    CallerBuffers <- MCCallerBuffers
    Modes <- MCModes
    Requests = {0, 2, 3, 7, 31}
    o1 = o1
    o2 = o2
    o3 = o3
    Owners = {o1, o2, o3}
    Zero = Zero
    Junk = Junk
    Header = Header
SYMMETRY CallersAlike
INVARIANTS
    TypeOK
    HeapConsistent
    BytesPrivate
    FailsOnlyWhenFull
CHECK_DEADLOCK FALSE
