-------------------------- MODULE SnapshotManager --------------------------
(***************************************************************************)
(* The snapshot pool of src/src/snapshot.rs: a map of snapshots by id and  *)
(* an insertion-order queue of ids, changed under one RwLock.  Removals    *)
(* leave their id behind in the queue (a ghost) and evict_oldest skips it. *)
(*                                                                         *)
(* create_snapshot stamps the snapshot before it waits for the lock, so it *)
(* is two actions: another task may run in between.  Every other operation *)
(* holds the lock from its first read to its last write and is one action. *)
(*                                                                         *)
(* A snapshot is known by its device_id and its age (now - created_at).    *)
(* The id is a hash of the contents: creating the same contents again      *)
(* gives the same id.  The age is a difference of two readings of the wall *)
(* clock in u64 (Elapsed); it stops growing at AgeCap.                     *)
(***************************************************************************)
EXTENDS Integers, Sequences, FiniteSets, Functions

CONSTANTS Tasks,          \* tasks that create snapshots
          Ids,            \* snapshot ids
          Devices,        \* device_id
          Nothing,        \* no snapshot under construction
          max_snapshots, snapshot_ttl,
          MaxOrder,       \* bound: length of the queue
          MaxSteps,       \* bound: how often the wall clock is set back by one
          U64             \* the modulus of the machine word that holds a time

ASSUME SnapshotAssumption ==
    /\ max_snapshots \in Nat \ {0}
    /\ snapshot_ttl \in Nat
    /\ MaxOrder \in Nat
    /\ MaxSteps \in Nat
    /\ U64 \in Nat \ {0}

VARIABLES map,       \* SnapshotStore.map
          order,     \* SnapshotStore.order
          creating,  \* creating[t]: the snapshot t is about to store
          steps      \* clock corrections so far

vars == <<map, order, creating, steps>>

AgeCap == snapshot_ttl + 1 + MaxSteps
Ages == (-MaxSteps)..AgeCap
Snapshot == [device_id : Devices, age : Ages]

\* The u64 subtraction "now - created_at".
Elapsed(s) == s.age % U64
Unexpired(s) == Elapsed(s) < snapshot_ttl

\* HashMap::insert and HashMap::retain.
Insert(f, k, v) == [x \in DOMAIN f \cup {k} |-> IF x = k THEN v ELSE f[x]]
Retain(f, S) == [x \in DOMAIN f \cap S |-> f[x]]

\* evict_oldest pops ids until one of them is in the map: that is the first live
\* position of the queue, if there is one.
Live(i) == i \in 1..Len(order) /\ order[i] \in DOMAIN map
FirstLive == CHOOSE i \in 1..Len(order) : Live(i) /\ \A j \in 1..(i - 1) : ~Live(j)
SomeLive == \E i \in 1..Len(order) : Live(i)

EvictedMap == IF SomeLive THEN Retain(map, DOMAIN map \ {order[FirstLive]}) ELSE map
\* Faulty variant of EvictedOrder: pops one id too many.
PoppedTooFar == IF SomeLive THEN SubSeq(order, FirstLive + 2, Len(order)) ELSE <<>>

EvictedOrder == IF SomeLive THEN SubSeq(order, FirstLive + 1, Len(order)) ELSE <<>>

\* Faulty variant of Full: evicts one snapshot too late.
OverFull == Cardinality(DOMAIN map) > max_snapshots

Full == Cardinality(DOMAIN map) >= max_snapshots

\* drain_for_uplink: since_ms is known by the oldest age it accepts.
Drainable(id, device, oldest) ==
    /\ map[id].device_id = device
    /\ map[id].age <= oldest
    /\ Unexpired(map[id])

----------------------------------------------------------------------------
Init ==
    /\ map = <<>>
    /\ order = <<>>
    /\ creating = [t \in Tasks |-> Nothing]
    /\ steps = 0

\* create_snapshot up to `self.store.write().await`.
StampSnapshot(t, id, device) ==
    /\ creating[t] = Nothing
    /\ creating' = [creating EXCEPT ![t] = [id |-> id, device_id |-> device, age |-> 0]]
    /\ UNCHANGED <<map, order, steps>>

\* create_snapshot with the lock: evict if full, queue the id, store the snapshot.
CreateSnapshot(t) ==
    /\ creating[t] # Nothing
    /\ Len(order) < MaxOrder
    /\ LET s == creating[t]
           snapshot == [device_id |-> s.device_id, age |-> s.age]
       IN  /\ map' = Insert(IF Full THEN EvictedMap ELSE map, s.id, snapshot)
           /\ order' = Append(IF Full THEN EvictedOrder ELSE order, s.id)
    /\ creating' = [creating EXCEPT ![t] = Nothing]
    /\ UNCHANGED steps

DrainForUplink(device, oldest) ==
    /\ map' = Retain(map, {id \in DOMAIN map : ~Drainable(id, device, oldest)})
    /\ UNCHANGED <<order, creating, steps>>

DeleteSnapshot(id) ==
    /\ map' = Retain(map, DOMAIN map \ {id})
    /\ UNCHANGED <<order, creating, steps>>

ClearExpired ==
    /\ map' = Retain(map, {id \in DOMAIN map : Unexpired(map[id])})
    /\ UNCHANGED <<order, creating, steps>>

\* Every age moves from a to f[a].
Shift(f) ==
    /\ map' = [id \in DOMAIN map |-> [map[id] EXCEPT !.age = f[@]]]
    /\ creating' = [t \in Tasks |-> IF creating[t] = Nothing THEN Nothing
                                    ELSE [creating[t] EXCEPT !.age = f[@]]]

\* A millisecond passes.
Tick ==
    /\ Shift([a \in Ages |-> IF a < AgeCap THEN a + 1 ELSE a])
    /\ UNCHANGED <<order, steps>>

\* The wall clock is set back (now_ms reads SystemTime).
SetClockBack ==
    /\ steps < MaxSteps
    /\ Shift([a \in Ages |-> a - 1])
    /\ steps' = steps + 1
    /\ UNCHANGED order

Next ==
    \/ \E t \in Tasks, id \in Ids, d \in Devices : StampSnapshot(t, id, d)
    \/ \E t \in Tasks : CreateSnapshot(t)
    \/ \E d \in Devices, oldest \in 0..snapshot_ttl : DrainForUplink(d, oldest)
    \/ \E id \in Ids : DeleteSnapshot(id)
    \/ ClearExpired
    \/ Tick
    \/ SetClockBack

Spec == Init /\ [][Next]_vars

----------------------------------------------------------------------------
(* Properties *)

\* Every variable keeps its type; an age never leaves its bounds.
TypeOK ==
    /\ DOMAIN map \subseteq Ids
    /\ map \in [DOMAIN map -> Snapshot]
    /\ order \in Seq(Ids)
    /\ creating \in [Tasks -> {Nothing} \cup [id : Ids, device_id : Devices, age : Ages]]
    /\ steps \in 0..MaxSteps
    /\ \A id \in DOMAIN map : map[id].age >= -steps
    /\ \A t \in Tasks : creating[t] # Nothing => creating[t].age >= -steps

\* Every stored snapshot is in the queue, whatever was drained, deleted, expired or
\* created again: evict_oldest, which only looks at the queue, can reach it.
LiveKeysQueued == DOMAIN map \subseteq Range(order)

\* However many ghosts are in the queue, an eviction makes room: the pool never
\* holds more than max_snapshots snapshots.
CapacityBound == Cardinality(DOMAIN map) <= max_snapshots

\* The last entry of the queue for id: the insertion of the snapshot the map holds.
Inserted(id) == CHOOSE i \in 1..Len(order) :
                    order[i] = id /\ \A j \in (i + 1)..Len(order) : order[j] # id

\* snapshot.rs:23, "pop the front key, skip ghost entries (keys already removed by
\* drain_for_uplink / delete_snapshot)": evict_oldest removes the snapshot that was
\* inserted before all the others.
EvictsOldest ==
    [][\A id \in DOMAIN map \ DOMAIN map' :
           order' # order => \A other \in DOMAIN map : Inserted(id) <= Inserted(other)]_vars

=============================================================================
