--------------------------- MODULE DynamicBuffer ---------------------------
(***************************************************************************)
(* src/src/dynamic_buffer.rs: a pool of byte buffers that are handed out   *)
(* round robin and grow on demand.  A buffer is [len, capacity]; the bytes *)
(* do not matter here.                                                     *)
(***************************************************************************)
EXTENDS Integers, FiniteSetsExt

CONSTANTS pool_size, initial_capacity, max_capacity,
          Sizes              \* sizes of the data written

VARIABLES buffers, next_index

vars == <<buffers, next_index>>

Pool == 0..(pool_size - 1)
Fresh(capacity) == [len |-> 0, capacity |-> capacity]

Init ==
    /\ initial_capacity <= max_capacity       \* new() fails otherwise
    /\ buffers = [i \in Pool |-> Fresh(initial_capacity)]
    /\ next_index = 0

\* Vec::reserve: the least capacity it promises; the allocator may give more.
Reserve(b, additional) ==
    IF b.len + additional <= b.capacity THEN b.capacity ELSE b.len + additional

next_power_of_two(n) == CHOOSE p \in {2 ^ k : k \in 0..n} : p >= n /\ (p = 1 \/ p \div 2 < n)

\* The room is reserved before the old contents are cleared.
write(b, size) ==
    IF size > max_capacity THEN b
    ELSE [len |-> size,
          capacity |-> IF size > b.capacity
                       THEN Reserve(b, Min({next_power_of_two(size), max_capacity}))
                       ELSE b.capacity]

\* get_buffer() and write() on what it returns; next_index only matters modulo the size.
WriteNext(size) ==
    /\ buffers' = [buffers EXCEPT ![next_index] = write(@, size)]
    /\ next_index' = (next_index + 1) % pool_size

\* get_buffer_at(i) and a call on what it returns
WriteAt(i, size) == buffers' = [buffers EXCEPT ![i] = write(@, size)] /\ UNCHANGED next_index
clear(i) == buffers' = [buffers EXCEPT ![i].len = 0] /\ UNCHANGED next_index
reset(i, capacity) ==
    /\ capacity <= max_capacity
    /\ buffers' = [buffers EXCEPT ![i] = Fresh(capacity)]
    /\ UNCHANGED next_index

Next ==
    \/ \E size \in Sizes : WriteNext(size) \/ \E i \in Pool : WriteAt(i, size)
    \/ \E i \in Pool : clear(i) \/ reset(i, initial_capacity)

Spec == Init /\ [][Next]_vars

\* A buffer grows "up to max_capacity" (write, dynamic_buffer.rs): the memory of a pool
\* is bounded by pool_size * max_capacity.
GrowsUpToMaxCapacity == \A i \in Pool : buffers[i].capacity <= max_capacity
=============================================================================
