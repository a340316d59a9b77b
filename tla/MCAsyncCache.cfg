SPECIFICATION Spec
CONSTANTS
    p1 = p1
    p2 = p2
    h1 = h1
    h2 = h2
    Protocols <- MCProtocols
    Hashes <- MCHashes
    Times <- MCTimes
    max_entries = 3
    default_ttl = 1
    MaxBatch = 2
SYMMETRY Symmetry
INVARIANT NoGhostKeys
INVARIANT CapacityBound
PROPERTY SurvivesMaxEntriesWrites
