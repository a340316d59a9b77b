SPECIFICATION Spec
CONSTANTS
    t1 = t1
    t2 = t2
    i1 = i1
    i2 = i2
    i3 = i3
    d1 = d1
    d2 = d2
    Nothing = Nothing
    Tasks = {t1, t2}
    Ids = {i1, i2, i3}
    Devices = {d1, d2}
    max_snapshots = 2
    snapshot_ttl = 1
    MaxOrder = 4
    MaxSteps = 1
    U64 = 65536
SYMMETRY Symmetry
INVARIANT LiveKeysQueued
INVARIANT CapacityBound
