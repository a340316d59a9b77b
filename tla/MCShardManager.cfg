SPECIFICATION FairSpec
CONSTANTS
    p1 = p1
    p2 = p2
    Pushers = {p1, p2}
    num_shards = 2
    shard_size = 2
    batch_size = 2
    Workers = {1}
    MaxCalls = 3
    MaxAdmin = 2
INVARIANT EveryMessageOnce
 
INVARIANT CounterCoversResident
INVARIANT OvershootBound
PROPERTY OwnedAreHandled
CHECK_DEADLOCK FALSE
