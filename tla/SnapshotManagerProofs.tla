----------------------- MODULE SnapshotManagerProofs -----------------------
(***************************************************************************)
(* For every capacity of at least one, every number of tasks and any       *)
(* setting of the wall clock: every stored snapshot can be reached by the  *)
(* eviction, and the pool never outgrows max_snapshots.                    *)
(*                                                                         *)
(* The bound rests on LiveKeysQueued: a full pool has a live id in its     *)
(* queue, so evict_oldest does not run the queue empty without making room.*)
(***************************************************************************)
EXTENDS SnapshotManager, FiniteSetTheorems, SequenceTheorems, WellFoundedInduction, TLAPS

PoolInv ==
    /\ TypeOK
    /\ LiveKeysQueued
    /\ IsFiniteSet(DOMAIN map)
    /\ CapacityBound

\* A set of naturals that is not empty has a least element.
LEMMA LeastNat ==
    ASSUME NEW S \in SUBSET Nat, S # {}
    PROVE  \E m \in S : \A n \in S : m <= n
<1> DEFINE R == {ss \in Nat \X Nat : ss[1] < ss[2]}
<1>1. IsWellFoundedOn(R, Nat)
    BY NatLessThanWellFounded DEF OpToRel
<1>2. \E m \in S : \A n \in S : ~(<<n, m>> \in R)
    <2> HIDE DEF R
    <2> QED
        BY <1>1, WFMin
<1>3. \A m, n \in S : ~(<<n, m>> \in R) => m <= n
    OBVIOUS
<1> QED
    BY <1>2, <1>3

\* evict_oldest on a pool that is not empty removes exactly one snapshot and
\* leaves the others in the queue.
LEMMA EvictOldest ==
    ASSUME PoolInv, DOMAIN map # {}
    PROVE  /\ \E k \in DOMAIN map : DOMAIN EvictedMap = DOMAIN map \ {k}
           /\ EvictedMap \in [DOMAIN EvictedMap -> Snapshot]
           /\ \A id \in DOMAIN EvictedMap : EvictedMap[id] = map[id]
           /\ EvictedOrder \in Seq(Ids)
           /\ DOMAIN EvictedMap \subseteq Range(EvictedOrder)
<1> DEFINE p == FirstLive
           first(i) == Live(i) /\ \A j \in 1..(i - 1) : ~Live(j)
<1>1. /\ order \in Seq(Ids) /\ Len(order) \in Nat /\ DOMAIN order = 1..Len(order)
      /\ DOMAIN map \subseteq Range(order)
    BY LenProperties DEF PoolInv, TypeOK, LiveKeysQueued
<1>2. PICK i \in 1..Len(order) : Live(i)
    BY <1>1 DEF Range, Live
<1>3. SomeLive
    BY <1>2 DEF SomeLive
<1>4. \E i0 \in 1..Len(order) : first(i0)
    <2> DEFINE S == {n \in Nat : Live(n)}
    <2>1. S # {} /\ S \in SUBSET Nat
        BY <1>1, <1>2
    <2>2. PICK m \in S : \A n \in S : m <= n
        BY <2>1, LeastNat
    <2>3. m \in 1..Len(order) /\ Live(m)
        BY <2>2 DEF Live
    <2>4. \A j \in 1..(m - 1) : ~Live(j)
        BY <2>2, <2>3, <1>1
    <2> QED
        BY <2>3, <2>4
<1>5. p \in 1..Len(order) /\ Live(p) /\ \A j \in 1..(p - 1) : ~Live(j)
    BY <1>4 DEF FirstLive
<1> HIDE DEF p
<1>6. /\ EvictedMap = [x \in DOMAIN map \cap (DOMAIN map \ {order[p]}) |-> map[x]]
      /\ EvictedOrder = SubSeq(order, p + 1, Len(order))
    BY <1>3 DEF EvictedMap, EvictedOrder, Retain, p
<1>7. DOMAIN EvictedMap = DOMAIN map \ {order[p]} /\ order[p] \in DOMAIN map
    BY <1>5, <1>6 DEF Live
<1>8. EvictedOrder \in Seq(Ids)
    <2>1. \A k \in (p + 1)..Len(order) : order[k] \in Ids
        BY <1>1, <1>5
    <2> QED
        BY <1>1, <1>5, <1>6, <2>1
<1>9. ASSUME NEW id \in DOMAIN EvictedMap PROVE id \in Range(EvictedOrder)
    <2>1. id \in DOMAIN map /\ id # order[p]
        BY <1>7
    <2>2. PICK j \in 1..Len(order) : order[j] = id
        BY <1>1, <2>1 DEF Range
    <2>3. Live(j)
        BY <2>1, <2>2 DEF Live
    <2>4. j > p
        BY <1>1, <1>5, <2>1, <2>2, <2>3
    <2>5. /\ Len(EvictedOrder) = Len(order) - p
          /\ EvictedOrder[j - p] = order[j]
          /\ j - p \in 1..Len(EvictedOrder)
        <3> DEFINE n == Len(order)
                   q == j - p
        <3>1. /\ p \in 1..n /\ n \in Nat /\ q \in 1..(n - p) /\ q + p = j
              /\ p + 1 \in 1..(n + 1) /\ n - p \in Nat
            BY <1>1, <1>5, <2>4
        <3>2. /\ Len(SubSeq(order, p + 1, n)) = n - p
              /\ SubSeq(order, p + 1, n)[q] = order[p + q]
            <4>1. p + 1 \in 1..(n + 1) /\ n \in (p + 1 - 1)..n /\ order \in Seq(Ids)
                BY <1>1, <3>1
            <4>2. /\ Len(SubSeq(order, p + 1, n)) = n - (p + 1) + 1
                  /\ \A i2 \in 1..(n - (p + 1) + 1) :
                         SubSeq(order, p + 1, n)[i2] = order[(p + 1) + i2 - 1]
                BY <4>1, SubSeqProperties
            <4>3. n - (p + 1) + 1 = n - p /\ (p + 1) + q - 1 = p + q
                BY <3>1
            <4> QED
                BY <3>1, <4>2, <4>3
        <3>3. p + q = j
            BY <3>1
        <3> HIDE DEF q, n
        <3> QED
            BY <1>6, <3>1, <3>2, <3>3 DEF n, q
    <2>6. DOMAIN EvictedOrder = 1..Len(EvictedOrder)
        BY <1>8, LenProperties
    <2> QED
        BY <2>2, <2>5, <2>6 DEF Range
<1>10. EvictedMap \in [DOMAIN EvictedMap -> Snapshot]
    BY <1>6, <1>7 DEF PoolInv, TypeOK
<1> QED
    BY <1>6, <1>7, <1>8, <1>9, <1>10

\* Storing a snapshot keeps the pool consistent and within its bound.
LEMMA CreateStep ==
    ASSUME PoolInv, NEW t \in Tasks, CreateSnapshot(t)
    PROVE  PoolInv'
<1> DEFINE m == IF Full THEN EvictedMap ELSE map
           o == IF Full THEN EvictedOrder ELSE order
           s == creating[t]
           new == [device_id |-> s.device_id, age |-> s.age]
<1>1. s \in [id : Ids, device_id : Devices, age : Ages] /\ s.age >= -steps
    BY DEF PoolInv, TypeOK, CreateSnapshot
<1>2. Cardinality(DOMAIN map) \in Nat
    BY FS_CardinalityType DEF PoolInv
<1>3. /\ DOMAIN m \subseteq Ids
      /\ m \in [DOMAIN m -> Snapshot]
      /\ o \in Seq(Ids)
      /\ DOMAIN m \subseteq Range(o)
      /\ IsFiniteSet(DOMAIN m)
      /\ Cardinality(DOMAIN m) < max_snapshots
      /\ Cardinality(DOMAIN m) \in Nat
      /\ \A id \in DOMAIN m : m[id].age >= -steps
    <2>1. CASE Full
        <3>1. DOMAIN map # {}
            BY <2>1, FS_EmptySet, SnapshotAssumption DEF Full
        <3>2. m = EvictedMap /\ o = EvictedOrder
            BY <2>1
        <3>3. PICK k \in DOMAIN map : DOMAIN EvictedMap = DOMAIN map \ {k}
            BY <3>1, EvictOldest
        <3>4. /\ IsFiniteSet(DOMAIN EvictedMap)
              /\ Cardinality(DOMAIN EvictedMap) = Cardinality(DOMAIN map) - 1
            BY <3>3, FS_RemoveElement DEF PoolInv
        <3>5. Cardinality(DOMAIN EvictedMap) \in Nat
            BY <3>4, FS_CardinalityType
        <3>6. Cardinality(DOMAIN EvictedMap) < max_snapshots
            BY <1>2, <3>4, <3>5, SnapshotAssumption DEF PoolInv, CapacityBound
        <3>7. \A id \in DOMAIN EvictedMap : EvictedMap[id].age >= -steps
            BY <3>1, <3>3, EvictOldest DEF PoolInv, TypeOK
        <3> HIDE DEF m, o
        <3> QED
            BY <3>1, <3>2, <3>3, <3>4, <3>5, <3>6, <3>7, EvictOldest DEF PoolInv, TypeOK
    <2>2. CASE ~Full
        <3>1. m = map /\ o = order
            BY <2>2
        <3>2. Cardinality(DOMAIN map) < max_snapshots
            BY <1>2, <2>2, SnapshotAssumption DEF Full
        <3> HIDE DEF m, o
        <3> QED
            BY <1>2, <3>1, <3>2 DEF PoolInv, TypeOK, LiveKeysQueued
    <2> QED
        BY <2>1, <2>2
<1>4. /\ map' = Insert(m, s.id, new)
      /\ order' = Append(o, s.id)
      /\ creating' = [creating EXCEPT ![t] = Nothing]
      /\ steps' = steps
    BY DEF CreateSnapshot
<1> HIDE DEF m, o
<1>5. DOMAIN map' = DOMAIN m \cup {s.id}
    BY <1>4 DEF Insert
<1>6. new \in Snapshot /\ new.age = s.age
    BY <1>1 DEF Snapshot
<1> HIDE DEF new, s
<1>7. /\ map' \in [DOMAIN map' -> Snapshot]
      /\ \A id \in DOMAIN map' : map'[id].age >= -steps'
    BY <1>1, <1>3, <1>4, <1>5, <1>6 DEF Insert
<1>8. order' \in Seq(Ids) /\ Range(order') = Range(o) \cup {s.id}
    <2>1. s.id \in Ids
        BY <1>1
    <2>2. /\ order' \in Seq(Ids) /\ Len(order') = Len(o) + 1
          /\ order'[Len(o) + 1] = s.id /\ \A i \in 1..Len(o) : order'[i] = o[i]
          /\ Len(o) \in Nat
        BY <1>3, <1>4, <2>1
    <2>3. DOMAIN o = 1..Len(o) /\ DOMAIN order' = 1..(Len(o) + 1)
        BY <1>3, <2>2
    <2>4. Range(order') \subseteq Range(o) \cup {s.id}
        BY <2>2, <2>3 DEF Range
    <2>5. s.id \in Range(order')
        BY <2>2, <2>3 DEF Range
    <2>6. Range(o) \subseteq Range(order')
        BY <2>2, <2>3 DEF Range
    <2> QED
        BY <2>2, <2>4, <2>5, <2>6
<1>9. IsFiniteSet(DOMAIN map') /\ Cardinality(DOMAIN map') <= max_snapshots
    <2>1. CASE s.id \in DOMAIN m
        <3>1. DOMAIN map' = DOMAIN m
            BY <1>5, <2>1
        <3> QED
            BY <1>3, <3>1, SnapshotAssumption
    <2>2. CASE s.id \notin DOMAIN m
        <3>1. /\ IsFiniteSet(DOMAIN m \cup {s.id})
              /\ Cardinality(DOMAIN m \cup {s.id}) = Cardinality(DOMAIN m) + 1
            BY <1>3, <2>2, FS_AddElement
        <3> QED
            BY <1>3, <1>5, <3>1, SnapshotAssumption
    <2> QED
        BY <2>1, <2>2
<1>10. /\ creating' \in [Tasks -> {Nothing} \cup [id : Ids, device_id : Devices, age : Ages]]
       /\ \A u \in Tasks : creating'[u] # Nothing => creating'[u].age >= -steps'
       /\ steps' \in 0..MaxSteps
    BY <1>4 DEF PoolInv, TypeOK
<1>11. DOMAIN map' \subseteq Ids /\ DOMAIN map' \subseteq Range(order')
    BY <1>1, <1>3, <1>5, <1>8
<1> QED
    BY <1>7, <1>8, <1>9, <1>10, <1>11 DEF PoolInv, TypeOK, LiveKeysQueued, CapacityBound

\* Removing any set of snapshots from the map, the queue untouched, is harmless:
\* drain_for_uplink, delete_snapshot and clear_expired.
LEMMA RetainStep ==
    ASSUME PoolInv, NEW S, map' = Retain(map, S), UNCHANGED <<order, creating, steps>>
    PROVE  PoolInv'
<1>1. DOMAIN map' \subseteq DOMAIN map /\ \A id \in DOMAIN map' : map'[id] = map[id]
    BY DEF Retain
<1>2. map' \in [DOMAIN map' -> Snapshot]
    BY DEF Retain, PoolInv, TypeOK
<1>3. /\ IsFiniteSet(DOMAIN map')
      /\ Cardinality(DOMAIN map') <= Cardinality(DOMAIN map)
    BY <1>1, FS_Subset DEF PoolInv
<1>4. Cardinality(DOMAIN map') \in Nat /\ Cardinality(DOMAIN map) \in Nat
    BY <1>3, FS_CardinalityType DEF PoolInv
<1>5. CapacityBound'
    BY <1>3, <1>4, SnapshotAssumption DEF PoolInv, CapacityBound
<1> QED
    BY <1>1, <1>2, <1>3, <1>5 DEF PoolInv, TypeOK, LiveKeysQueued

\* Moving every age within the bounds is harmless.
LEMMA ShiftStep ==
    ASSUME PoolInv, NEW f, Shift(f), order' = order, steps' \in 0..MaxSteps,
           \A a \in Ages : a >= -steps => f[a] \in Ages /\ f[a] >= -steps'
    PROVE  PoolInv'
<1>1. DOMAIN map' = DOMAIN map
    BY DEF Shift
<1>2. ASSUME NEW id \in DOMAIN map
      PROVE  map'[id] \in Snapshot /\ map'[id].age >= -steps'
    <2>1. map[id] \in [device_id : Devices, age : Ages] /\ map[id].age >= -steps
        BY DEF PoolInv, TypeOK, Snapshot
    <2>2. f[map[id].age] \in Ages /\ f[map[id].age] >= -steps'
        BY <2>1
    <2>3. map'[id] = [map[id] EXCEPT !.age = f[map[id].age]]
        BY DEF Shift
    <2> QED
        BY <2>1, <2>2, <2>3 DEF Snapshot
<1>3. map' \in [DOMAIN map' -> Snapshot]
    <2>1. map' = [id \in DOMAIN map |-> map'[id]]
        BY DEF Shift
    <2> QED
        BY <1>1, <1>2, <2>1
<1>4. ASSUME NEW t \in Tasks
      PROVE  /\ creating'[t] \in {Nothing} \cup [id : Ids, device_id : Devices, age : Ages]
             /\ creating'[t] # Nothing => creating'[t].age >= -steps'
    <2>1. CASE creating[t] = Nothing
        BY <2>1 DEF Shift
    <2>2. CASE creating[t] # Nothing
        <3>1. /\ creating[t] \in [id : Ids, device_id : Devices, age : Ages]
              /\ creating[t].age >= -steps
            BY <2>2 DEF PoolInv, TypeOK
        <3>2. f[creating[t].age] \in Ages /\ f[creating[t].age] >= -steps'
            BY <3>1
        <3>3. creating'[t] = [creating[t] EXCEPT !.age = f[creating[t].age]]
            BY <2>2 DEF Shift
        <3> QED
            BY <3>1, <3>2, <3>3
    <2> QED
        BY <2>1, <2>2
<1>5. creating' \in [Tasks -> {Nothing} \cup [id : Ids, device_id : Devices, age : Ages]]
    <2>1. creating' = [t \in Tasks |-> creating'[t]]
        BY DEF Shift
    <2> QED
        BY <1>4, <2>1
<1> QED
    BY <1>1, <1>2, <1>3, <1>4, <1>5 DEF PoolInv, TypeOK, LiveKeysQueued, CapacityBound

\* PoolInv survives every step.
LEMMA PoolStep ==
    ASSUME PoolInv, [Next]_vars
    PROVE  PoolInv'
<1>1. ASSUME NEW t \in Tasks, NEW id \in Ids, NEW d \in Devices, StampSnapshot(t, id, d)
      PROVE  PoolInv'
    <2>1. 0 \in Ages /\ 0 >= -steps
        BY SnapshotAssumption DEF Ages, AgeCap, PoolInv, TypeOK
    <2> QED
        BY <1>1, <2>1 DEF StampSnapshot, PoolInv, TypeOK, LiveKeysQueued, CapacityBound
<1>2. ASSUME NEW t \in Tasks, CreateSnapshot(t) PROVE PoolInv'
    BY <1>2, CreateStep
<1>3. ASSUME NEW d \in Devices, NEW oldest, DrainForUplink(d, oldest) PROVE PoolInv'
    BY <1>3, RetainStep DEF DrainForUplink
<1>4. ASSUME NEW id \in Ids, DeleteSnapshot(id) PROVE PoolInv'
    BY <1>4, RetainStep DEF DeleteSnapshot
<1>5. ASSUME ClearExpired PROVE PoolInv'
    BY <1>5, RetainStep DEF ClearExpired
<1>6. ASSUME Tick PROVE PoolInv'
    <2> DEFINE f == [a \in Ages |-> IF a < AgeCap THEN a + 1 ELSE a]
    <2>1. Shift(f) /\ order' = order /\ steps' = steps
        BY <1>6 DEF Tick
    <2>2. steps \in 0..MaxSteps
        BY DEF PoolInv, TypeOK
    <2>3. ASSUME NEW a \in Ages, a >= -steps PROVE f[a] \in Ages /\ f[a] >= -steps'
        BY <2>1, <2>2, <2>3, SnapshotAssumption DEF Ages, AgeCap
    <2> HIDE DEF f
    <2> QED
        BY <2>1, <2>2, <2>3, ShiftStep
<1>7. ASSUME SetClockBack PROVE PoolInv'
    <2> DEFINE f == [a \in Ages |-> a - 1]
    <2>1. Shift(f) /\ order' = order /\ steps' = steps + 1
        BY <1>7 DEF SetClockBack
    <2>2. steps \in 0..MaxSteps /\ steps < MaxSteps
        BY <1>7 DEF PoolInv, TypeOK, SetClockBack
    <2>3. steps' \in 0..MaxSteps
        BY <2>1, <2>2, SnapshotAssumption
    <2>4. ASSUME NEW a \in Ages, a >= -steps PROVE f[a] \in Ages /\ f[a] >= -steps'
        BY <2>1, <2>2, <2>4, SnapshotAssumption DEF Ages, AgeCap
    <2> HIDE DEF f
    <2> QED
        BY <2>1, <2>3, <2>4, ShiftStep
<1>8. ASSUME UNCHANGED vars PROVE PoolInv'
    BY <1>8 DEF vars, PoolInv, TypeOK, LiveKeysQueued, CapacityBound
<1> QED
    BY <1>1, <1>2, <1>3, <1>4, <1>5, <1>6, <1>7, <1>8 DEF Next

----------------------------------------------------------------------------
\* The pool is consistent and bounded, for every value of the constants.
THEOREM PoolInvariant == Spec => []PoolInv
<1>1. Init => PoolInv
    <2> SUFFICES ASSUME Init PROVE PoolInv
        OBVIOUS
    <2>1. DOMAIN map = {} /\ order = <<>>
        BY DEF Init
    <2> QED
        BY <2>1, FS_EmptySet, SnapshotAssumption
        DEF Init, PoolInv, TypeOK, LiveKeysQueued, CapacityBound
<1> QED
    BY <1>1, PoolStep, PTL DEF Spec

\* Every reachable state of the pool is well typed.
THEOREM PoolTypeCorrect == Spec => []TypeOK
    BY PoolInvariant, PTL DEF PoolInv

\* Every stored snapshot is within reach of evict_oldest.
THEOREM PoolLiveKeysQueued == Spec => []LiveKeysQueued
    BY PoolInvariant, PTL DEF PoolInv

\* The pool never holds more than max_snapshots snapshots.
THEOREM PoolCapacity == Spec => []CapacityBound
    BY PoolInvariant, PTL DEF PoolInv
=============================================================================
