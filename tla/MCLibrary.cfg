CONSTANTS
    Protocols = {"IridiumSBD", "Samsara"}
    spread_burst_threshold_ms <- Bases
    Stamps <- Clocks
    max_messages = 2
    max_batch_size = 2
    MaxArrivals = 4
    MaxEmergencies = 1
    Workers = {w1, w2, w3}
    PoolProtocols = {"IridiumSBD", "Samsara", "NIDD"}
    pool_size = 2
    Devices = {d1, d2, d3}
    Offsets <- Drifts
    Confidences = {0, 1}
    max_offsets = 2
    max_age = 1
    MaxTime = 2
    MaxRegistrations = 4
    Rules <- Limits
    Unit = 5000
    MaxRules = 3
    Attempts = {0, 1, 3, 4}
    BaseDelays = {1, 3, 9}
    max_delay = 8
    Sendable <- Messages
    buffer_size = 1
    Uplinked <- Iridium
    Buffers = {343, 344}
    SequenceSpace = 4
    MaxSent = 3
    MaxHot = 3
    CompactSpans <- Measured
    Entities = {1, 2}
    Byte = 256
    Times = {0, 1, 2}
    Compressions = {"Zstd"}
    MaxEncoded = 2
    MaxBundles = 2
    MaxDeliveries = 2
    MaxCorrections = 1
    Callers = {c1}
    failure_threshold = 3
    recovery_timeout = 3
    StartupInitialized = TRUE
    MaxSteps = 0
    MaxCancels = 2
    U64 = 65536
    check_interval = 2
    Period = 3
    MaxWall = 7
    MaxClockSteps = 1
    MaxCommands = 5
    MaxHeard = 3
    MaxFaults = 2
SYMMETRY Interchangeable
SPECIFICATION LibrarySpec
INVARIANT OutliersAreRouted
INVARIANT StoreHoldsLatest
INVARIANT TranslatorsComeBack
INVARIANT OffsetsAreCurrent
INVARIANT ThrottleIsExact
INVARIANT RetriesAsConfigured
 
 
 
INVARIANT BeliefIsLatest
INVARIANT HealthIsCurrent
INVARIANT ConfigNeedsCertificate
 
INVARIANT FramesFromTheAir
PROPERTY ImplementsContract
CHECK_DEADLOCK FALSE
