\* Three flows on three threads, a FixedPool of one buffer and a LimitedPool
\* of one: every flow can wait while the others share buffers.
CONSTANTS
    f1 = f1
    f2 = f2
    f3 = f3
    b1 = b1
    h1 = h1
    NULL = NULL
    Flows = {f1, f2, f3}
    FixedItems = {b1}
    HeapItems = {h1}
    entry_count = 1
    MaxRefs = 1
    MaxChildren = 2
SPECIFICATION FairSpec
INVARIANTS OnePlace KindsApart  JoinsAll
PROPERTIES Served Told
CHECK_DEADLOCK FALSE
