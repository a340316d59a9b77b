CONSTANTS
    pool_size = 2
    initial_capacity = 2
    max_capacity = 6
    Sizes = {1, 2, 3, 4, 5, 6, 7}
SPECIFICATION Spec
INVARIANT GrowsUpToMaxCapacity
