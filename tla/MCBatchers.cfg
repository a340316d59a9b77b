CONSTANTS
    Messages = {m1, m2}
    max_batch_size = 3
    batch_timeout = 2
    buffer_size = 2
    Arrivals = {e1, e2, s, b, n}
    Emergency = {e1, e2}
    SafetyCritical = {s}
    Burst = {b}
    arrivals_batch_size = 3
    arrivals_timeout = 1
    arrivals_buffer_size = 1
    SafetyLimit = 2
SPECIFICATION BatchersSpec
INVARIANT NothingLeftBehind
 
PROPERTY ImplementsCoalescer
PROPERTY EventuallySent
PROPERTY ImplementsTwoCoalescers
PROPERTY ArrivalsEventuallySent
CHECK_DEADLOCK FALSE
