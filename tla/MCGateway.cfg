CONSTANTS
    Messages = {1, 2, 3, 4}
    Emergency = {1}
    Iridium = {2}
    Late = {2, 3, 4}
    Invalid = {4}
    payload <- OtherPayload
    Shards = {1}
    shard_size = 2
    backpressure_limit = 2
    max_batch_size = 2
    tx_batch_size = 2
    worker_batch_size = 2
    duplicates = 2
    MaxOutages = 1
SPECIFICATION FairSpec
INVARIANT EveryCopyAccounted
INVARIANT StoredBeforeUplink
INVARIANT EmergencyNeverBatched
 
 
CHECK_DEADLOCK FALSE
