-------------------------- MODULE AsyncCacheProofs --------------------------
(***************************************************************************)
(* For every set of keys and every capacity of at least one: the queue of  *)
(* the cache lists exactly the keys of its map, each once, and the map     *)
(* never outgrows max_entries.                                             *)
(*                                                                         *)
(* The bound needs the absence of ghosts (an eviction that pops a ghost    *)
(* frees nothing) and the absence of ghosts needs that only one loop holds *)
(* the locks (LockInv).                                                    *)
(***************************************************************************)
EXTENDS AsyncCache, QueueTheorems, FiniteSetTheorems

LockInv == pending = <<>> \/ doomed = {}

CacheInv ==
    /\ TypeOK
    /\ LockInv
    /\ NoGhostKeys
    /\ IsFiniteSet(DOMAIN entries)
    /\ CapacityBound

\* What one iteration of set or set_batch needs to know, and what it ensures: the
\* eviction makes room, the insertion adds one key to the map and to the queue.
LEMMA SetEntryStep ==
    ASSUME CacheInv, NEW k \in CacheKey, NEW t \in Times, SetEntry(k, t)
    PROVE  /\ DOMAIN entries' \subseteq CacheKey
           /\ entries' \in [DOMAIN entries' -> CacheEntry]
           /\ eviction_order' \in Seq(CacheKey)
           /\ writes' \in [CacheKey -> 0..max_entries]
           /\ NoGhostKeys'
           /\ IsFiniteSet(DOMAIN entries')
           /\ CapacityBound'
<1> DEFINE E == EvictedEntries
           O == EvictedOrder
<1>1. /\ O \in Seq(CacheKey)
      /\ Range(O) = DOMAIN E
      /\ IsInjective(O)
      /\ DOMAIN E \subseteq CacheKey
      /\ E \in [DOMAIN E -> CacheEntry]
      /\ IsFiniteSet(DOMAIN E)
      /\ Cardinality(DOMAIN E) \in Nat
      /\ Cardinality(DOMAIN E) < max_entries
    <2>1. CASE Full
        <3> DEFINE h == Head(eviction_order)
        <3>1. /\ O = Tail(eviction_order)
              /\ E = [x \in DOMAIN entries \ {h} |-> entries[x]]
              /\ DOMAIN E = DOMAIN entries \ {h}
            BY <2>1 DEF EvictedEntries, EvictedOrder, Delete
        <3>2. /\ O \in Seq(CacheKey)
              /\ h \in DOMAIN entries
              /\ Range(O) = DOMAIN entries \ {h}
              /\ IsInjective(O)
            BY <2>1, <3>1, PopFront DEF Full, CacheInv, TypeOK, NoGhostKeys
        <3>3. /\ IsFiniteSet(DOMAIN entries \ {h})
              /\ Cardinality(DOMAIN entries \ {h}) = Cardinality(DOMAIN entries) - 1
            BY <3>2, FS_RemoveElement DEF CacheInv
        <3>4. /\ Cardinality(DOMAIN entries) \in Nat
              /\ Cardinality(DOMAIN entries \ {h}) \in Nat
            BY <3>3, FS_CardinalityType DEF CacheInv
        <3>5. Cardinality(DOMAIN entries \ {h}) < max_entries
            BY <3>3, <3>4, CacheAssumption DEF CacheInv, CapacityBound
        <3>6. DOMAIN E \subseteq CacheKey /\ E \in [DOMAIN E -> CacheEntry]
            BY <3>1 DEF CacheInv, TypeOK
        <3> QED
            BY <3>1, <3>2, <3>3, <3>4, <3>5, <3>6
    <2>2. CASE ~Full
        <3>1. O = eviction_order /\ E = entries
            BY <2>2 DEF EvictedEntries, EvictedOrder
        <3>2. Cardinality(DOMAIN entries) \in Nat
            BY FS_CardinalityType DEF CacheInv
        <3>3. CASE eviction_order = <<>>
            <4>1. DOMAIN entries = {}
                BY <3>3 DEF CacheInv, NoGhostKeys, Range
            <4> QED
                BY <3>1, <3>2, <4>1, FS_EmptySet, CacheAssumption
                DEF CacheInv, TypeOK, NoGhostKeys
        <3>4. CASE eviction_order # <<>>
            <4>1. Cardinality(DOMAIN entries) < max_entries
                BY <2>2, <3>2, <3>4, CacheAssumption DEF Full
            <4> QED
                BY <3>1, <3>2, <4>1 DEF CacheInv, TypeOK, NoGhostKeys
        <3> QED
            BY <3>3, <3>4
    <2> QED
        BY <2>1, <2>2
<1> HIDE DEF E, O
<1>2. /\ entries' = [x \in DOMAIN E \cup {k} |->
                        IF x = k THEN [t_event |-> t, age |-> 0] ELSE E[x]]
      /\ DOMAIN entries' = DOMAIN E \cup {k}
      /\ eviction_order' = IF k \in DOMAIN E THEN O ELSE Append(O, k)
    BY DEF SetEntry, Insert, E, O
<1>3. entries' \in [DOMAIN entries' -> CacheEntry]
    BY <1>1, <1>2, CacheAssumption DEF CacheEntry
<1>4. writes' \in [CacheKey -> 0..max_entries]
    BY CacheAssumption DEF SetEntry, CacheInv, TypeOK
<1>5. /\ eviction_order' \in Seq(CacheKey)
      /\ Range(eviction_order') = DOMAIN entries'
      /\ IsInjective(eviction_order')
    <2>1. CASE k \in DOMAIN E
        BY <1>1, <1>2, <2>1
    <2>2. CASE k \notin DOMAIN E
        BY <1>1, <1>2, <2>2, PushBack
    <2> QED
        BY <2>1, <2>2
<1>6. IsFiniteSet(DOMAIN entries') /\ Cardinality(DOMAIN entries') <= max_entries
    <2>1. CASE k \in DOMAIN E
        <3>1. DOMAIN entries' = DOMAIN E
            BY <1>2, <2>1
        <3> QED
            BY <1>1, <3>1, CacheAssumption
    <2>2. CASE k \notin DOMAIN E
        <3>1. /\ IsFiniteSet(DOMAIN E \cup {k})
              /\ Cardinality(DOMAIN E \cup {k}) = Cardinality(DOMAIN E) + 1
            BY <1>1, <2>2, FS_AddElement
        <3> QED
            BY <1>1, <1>2, <3>1, CacheAssumption
    <2> QED
        BY <2>1, <2>2
<1> QED
    BY <1>1, <1>2, <1>3, <1>4, <1>5, <1>6 DEF NoGhostKeys, CapacityBound

\* An iteration of an invalidation takes the same key out of the map and the queue.
LEMMA InvalidateStep ==
    ASSUME CacheInv, NEW k \in doomed, InvalidateNext(k)
    PROVE  CacheInv'
<1>1. k \in DOMAIN entries /\ k \in Range(eviction_order)
    BY DEF CacheInv, TypeOK, NoGhostKeys
<1>2. DOMAIN entries' = DOMAIN entries \ {k}
    BY DEF InvalidateNext, Delete
<1>3. /\ eviction_order' \in Seq(CacheKey)
      /\ IsInjective(eviction_order')
      /\ Range(eviction_order') = Range(eviction_order) \ {k}
    <2> DEFINE s == eviction_order
               First(i) == s[i] = k /\ \A j \in 1..(i - 1) : s[j] # k
               pos == CHOOSE i \in 1..Len(s) : First(i)
    <2>1. s \in Seq(CacheKey) /\ IsInjective(s) /\ DOMAIN s = 1..Len(s) /\ Len(s) \in Nat
        BY LenProperties DEF CacheInv, TypeOK, NoGhostKeys
    <2>2. PICK i \in 1..Len(s) : s[i] = k
        BY <1>1, <2>1 DEF Range
    <2>3. First(i)
        BY <2>1, <2>2 DEF IsInjective
    <2>4. pos \in 1..Len(s) /\ s[pos] = k
        BY <2>3
    <2>5. eviction_order' = SubSeq(s, 1, pos - 1) \o SubSeq(s, pos + 1, Len(s))
        BY <2>2 DEF InvalidateNext, RemoveKey
    <2> HIDE DEF pos
    <2> QED
        BY <2>1, <2>4, <2>5, RemovePosition
<1>4. /\ IsFiniteSet(DOMAIN entries')
      /\ Cardinality(DOMAIN entries') <= max_entries
    <2>1. /\ IsFiniteSet(DOMAIN entries \ {k})
          /\ Cardinality(DOMAIN entries \ {k}) = Cardinality(DOMAIN entries) - 1
        BY <1>1, FS_RemoveElement DEF CacheInv
    <2>2. Cardinality(DOMAIN entries) \in Nat
        BY FS_CardinalityType DEF CacheInv
    <2> QED
        BY <1>2, <2>1, <2>2, CacheAssumption DEF CacheInv, CapacityBound
<1>5. /\ entries' \in [DOMAIN entries' -> CacheEntry]
      /\ doomed' \subseteq DOMAIN entries'
      /\ LockInv'
    BY <1>2 DEF InvalidateNext, Delete, CacheInv, TypeOK, LockInv
<1> QED
    BY <1>2, <1>3, <1>4, <1>5
    DEF CacheInv, TypeOK, NoGhostKeys, CapacityBound, InvalidateNext

\* CacheInv survives every step.
LEMMA CacheStep ==
    ASSUME CacheInv, [Next]_vars
    PROVE  CacheInv'
<1>1. ASSUME NEW k \in CacheKey, NEW t \in Times, Set(k, t) PROVE CacheInv'
    BY <1>1, SetEntryStep DEF Set, Unlocked, CacheInv, TypeOK, LockInv
<1>2. ASSUME NEW b \in Batch, SetBatch(b) PROVE CacheInv'
    <2>1. b \in Seq(CacheKey \X Times)
        <3>1. PICK n \in 1..MaxBatch : b \in [1..n -> CacheKey \X Times]
            BY DEF Batch
        <3> QED
            BY <3>1, CacheAssumption
    <2> QED
        BY <1>2, <2>1
        DEF SetBatch, Unlocked, CacheInv, TypeOK, LockInv, NoGhostKeys, CapacityBound
<1>3. ASSUME SetBatchNext PROVE CacheInv'
    <2>1. /\ Head(pending) \in CacheKey \X Times
          /\ Tail(pending) \in Seq(CacheKey \X Times)
          /\ doomed = {}
        BY <1>3, HeadTailProperties DEF SetBatchNext, CacheInv, TypeOK, LockInv
    <2>2. Head(pending)[1] \in CacheKey /\ Head(pending)[2] \in Times
        BY <2>1
    <2> QED
        BY <1>3, <2>1, <2>2, SetEntryStep DEF SetBatchNext, CacheInv, TypeOK, LockInv
<1>4. ASSUME NEW p \in Protocols, NEW s \in Times, NEW e \in Times,
             InvalidateProtocolTimeRange(p, s, e)
      PROVE  CacheInv'
    BY <1>4 DEF InvalidateProtocolTimeRange, Unlocked, CacheInv, TypeOK, LockInv,
                NoGhostKeys, CapacityBound
<1>5. ASSUME NEW p \in Protocols, InvalidateProtocol(p) PROVE CacheInv'
    BY <1>5 DEF InvalidateProtocol, Unlocked, CacheInv, TypeOK, LockInv,
                NoGhostKeys, CapacityBound
<1>6. ASSUME NEW k \in doomed, InvalidateNext(k) PROVE CacheInv'
    BY <1>6, InvalidateStep
<1>7. ASSUME Clear PROVE CacheInv'
    <2>1. DOMAIN entries' = {} /\ eviction_order' = <<>> /\ doomed' = {} /\ entries' = <<>>
        BY <1>7 DEF Clear, Unlocked
    <2>2. NoGhostKeys'
        BY <2>1 DEF NoGhostKeys, Range, IsInjective
    <2> QED
        BY <1>7, <2>1, <2>2, FS_EmptySet, CacheAssumption
        DEF Clear, Unlocked, CacheInv, TypeOK, LockInv, CapacityBound
<1>8. ASSUME Tick PROVE CacheInv'
    <2>1. DOMAIN entries' = DOMAIN entries /\ entries' \in [DOMAIN entries' -> CacheEntry]
        <3>1. DOMAIN entries' = DOMAIN entries
            BY <1>8 DEF Tick
        <3>2. ASSUME NEW k \in DOMAIN entries PROVE entries'[k] \in CacheEntry
            <4> DEFINE e == entries[k]
                       older == IF e.age < default_ttl THEN e.age + 1 ELSE e.age
            <4>1. e \in [t_event : Times, age : 0..default_ttl]
                BY DEF CacheInv, TypeOK, CacheEntry
            <4>2. older \in 0..default_ttl
                BY <4>1, CacheAssumption
            <4>3. entries'[k] = [e EXCEPT !.age = older]
                BY <1>8 DEF Tick
            <4> HIDE DEF e, older
            <4> QED
                BY <4>1, <4>2, <4>3 DEF CacheEntry
        <3>3. entries' = [k \in DOMAIN entries |-> entries'[k]]
            BY <1>8 DEF Tick
        <3> QED
            BY <3>1, <3>2, <3>3
    <2> QED
        BY <1>8, <2>1 DEF Tick, CacheInv, TypeOK, LockInv, NoGhostKeys, CapacityBound
<1>9. ASSUME UNCHANGED vars PROVE CacheInv'
    BY <1>9 DEF vars, CacheInv, TypeOK, LockInv, NoGhostKeys, CapacityBound
<1> QED
    BY <1>1, <1>2, <1>3, <1>4, <1>5, <1>6, <1>7, <1>8, <1>9 DEF Next

----------------------------------------------------------------------------
\* For every capacity of at least one, the cache keeps its map and its eviction
\* queue consistent and bounded.
THEOREM CacheInvariant == Spec => []CacheInv
<1>1. Init => CacheInv
    <2> SUFFICES ASSUME Init PROVE CacheInv
        OBVIOUS
    <2>1. DOMAIN entries = {} /\ eviction_order = <<>>
        BY DEF Init
    <2>2. NoGhostKeys
        BY <2>1 DEF NoGhostKeys, Range, IsInjective
    <2> QED
        BY <2>1, <2>2, FS_EmptySet, CacheAssumption
        DEF Init, CacheInv, TypeOK, LockInv, CapacityBound
<1> QED
    BY <1>1, CacheStep, PTL DEF Spec

\* Every reachable state of the cache is well typed.
THEOREM CacheTypeCorrect == Spec => []TypeOK
    BY CacheInvariant, PTL DEF CacheInv

\* The eviction queue never holds a ghost or a duplicate and misses no key.
THEOREM CacheNoGhostKeys == Spec => []NoGhostKeys
    BY CacheInvariant, PTL DEF CacheInv

\* The map never holds more than max_entries entries.
THEOREM CacheCapacity == Spec => []CapacityBound
    BY CacheInvariant, PTL DEF CacheInv
=============================================================================
