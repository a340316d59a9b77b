----------------------------- MODULE AsyncCache -----------------------------
(***************************************************************************)
(* The translation cache of src/src/cache.rs: a map of entries and a queue *)
(* of the keys in insertion order, changed together under both locks.      *)
(*                                                                         *)
(* A cached message is known by its t_event, a key by its protocol and the *)
(* hash of the payload, and the Instant of an entry by its age, which      *)
(* stops growing at default_ttl, where the entry is expired.               *)
(*                                                                         *)
(* set_batch and the two invalidations loop with both locks held.  The     *)
(* model takes one step per iteration: `pending` is what is left of a      *)
(* batch, `doomed` the keys a retain() has still to remove, in the         *)
(* arbitrary order a HashMap is visited.  While either is non-empty the    *)
(* locks are held and nobody else runs.                                    *)
(***************************************************************************)
EXTENDS Integers, Sequences, FiniteSets, Functions

CONSTANTS Protocols, Hashes,  \* the two parts of a CacheKey
          Times,              \* the t_event of a message
          max_entries, default_ttl,
          MaxBatch            \* bound: the longest set_batch

ASSUME CacheAssumption ==
    /\ max_entries \in Nat \ {0}
    /\ default_ttl \in Nat \ {0}
    /\ Times \subseteq Nat
    /\ MaxBatch \in Nat

VARIABLES entries,         \* CacheKey -> CacheEntry
          eviction_order,  \* VecDeque<CacheKey>
          pending,         \* the rest of the batch set_batch is writing
          doomed,          \* the keys an invalidation has still to remove
          writes           \* history: iterations of set since a key was inserted

vars == <<entries, eviction_order, pending, doomed, writes>>

CacheKey == Protocols \X Hashes
CacheEntry == [t_event : Times, age : 0..default_ttl]
Batch == UNION {[1..n -> CacheKey \X Times] : n \in 1..MaxBatch}

Unlocked == pending = <<>> /\ doomed = {}

\* HashMap::insert and HashMap::remove.
Insert(f, k, v) == [x \in DOMAIN f \cup {k} |-> IF x = k THEN v ELSE f[x]]
Delete(f, k) == [x \in DOMAIN f \ {k} |-> f[x]]

\* Faulty variant of RemoveKey: the queue keeps the key.
KeepKey(s, k) == s

\* order.remove(pos) of the first position of k, if there is one.
RemoveKey(s, k) ==
    IF \E i \in 1..Len(s) : s[i] = k
    THEN LET pos == CHOOSE i \in 1..Len(s) :
                        s[i] = k /\ \A j \in 1..(i - 1) : s[j] # k
         IN  SubSeq(s, 1, pos - 1) \o SubSeq(s, pos + 1, Len(s))
    ELSE s

\* get and get_batch: what a lookup of k returns.
Hit(k) == k \in DOMAIN entries /\ entries[k].age < default_ttl

----------------------------------------------------------------------------
Init ==
    /\ entries = <<>>
    /\ eviction_order = <<>>
    /\ pending = <<>>
    /\ doomed = {}
    /\ writes = [k \in CacheKey |-> 0]

\* Faulty variant of Full: evicts one insertion too late.
OverFull == Cardinality(DOMAIN entries) > max_entries /\ eviction_order # <<>>

\* The oldest key is dropped when the map is full, whether or not k is new.
Full == Cardinality(DOMAIN entries) >= max_entries /\ eviction_order # <<>>

EvictedEntries == IF Full THEN Delete(entries, Head(eviction_order)) ELSE entries
EvictedOrder == IF Full THEN Tail(eviction_order) ELSE eviction_order

\* Faulty variant of SetEntry: a refreshed key is put in front of the queue.
SetEntryInFront(k, t) ==
    /\ entries' = Insert(EvictedEntries, k, [t_event |-> t, age |-> 0])
    /\ eviction_order' = IF k \in DOMAIN EvictedEntries
                         THEN EvictedOrder ELSE <<k>> \o EvictedOrder
    /\ writes' = [x \in CacheKey |->
                     IF x = k /\ k \notin DOMAIN EvictedEntries THEN 0
                     ELSE IF writes[x] < max_entries THEN writes[x] + 1 ELSE writes[x]]

\* One iteration: evict, insert, and queue the key if it is new.
SetEntry(k, t) ==
    /\ entries' = Insert(EvictedEntries, k, [t_event |-> t, age |-> 0])
    /\ eviction_order' = IF k \in DOMAIN EvictedEntries
                         THEN EvictedOrder ELSE Append(EvictedOrder, k)
    /\ writes' = [x \in CacheKey |->
                     IF x = k /\ k \notin DOMAIN EvictedEntries THEN 0
                     ELSE IF writes[x] < max_entries THEN writes[x] + 1 ELSE writes[x]]

Set(k, t) ==
    /\ Unlocked
    /\ SetEntry(k, t)
    /\ UNCHANGED <<pending, doomed>>

\* set_batch takes the locks ...
SetBatch(b) ==
    /\ Unlocked
    /\ pending' = b
    /\ UNCHANGED <<entries, eviction_order, doomed, writes>>

\* ... and writes the batch, one entry per iteration.
SetBatchNext ==
    /\ pending # <<>>
    /\ SetEntry(Head(pending)[1], Head(pending)[2])
    /\ pending' = Tail(pending)
    /\ UNCHANGED doomed

\* retain() of an invalidation: the entries its closure rejects.
InvalidateProtocolTimeRange(p, start_ms, end_ms) ==
    /\ Unlocked
    /\ doomed' = {k \in DOMAIN entries :
                     k[1] = p /\ entries[k].t_event >= start_ms
                              /\ entries[k].t_event <= end_ms}
    /\ UNCHANGED <<entries, eviction_order, pending, writes>>

InvalidateProtocol(p) ==
    /\ Unlocked
    /\ doomed' = {k \in DOMAIN entries : k[1] = p}
    /\ UNCHANGED <<entries, eviction_order, pending, writes>>

\* One rejected entry leaves the map and the queue.
InvalidateNext(k) ==
    /\ k \in doomed
    /\ entries' = Delete(entries, k)
    /\ eviction_order' = RemoveKey(eviction_order, k)
    /\ doomed' = doomed \ {k}
    /\ UNCHANGED <<pending, writes>>

Clear ==
    /\ Unlocked
    /\ entries' = <<>>
    /\ eviction_order' = <<>>
    /\ UNCHANGED <<pending, doomed, writes>>

\* Time passes.
Tick ==
    /\ entries' = [k \in DOMAIN entries |->
                      [entries[k] EXCEPT !.age = IF @ < default_ttl THEN @ + 1 ELSE @]]
    /\ UNCHANGED <<eviction_order, pending, doomed, writes>>

Next ==
    \/ \E k \in CacheKey, t \in Times : Set(k, t)
    \/ \E b \in Batch : SetBatch(b)
    \/ SetBatchNext
    \/ \E p \in Protocols, s, e \in Times : InvalidateProtocolTimeRange(p, s, e)
    \/ \E p \in Protocols : InvalidateProtocol(p)
    \/ \E k \in doomed : InvalidateNext(k)
    \/ Clear
    \/ Tick

Spec == Init /\ [][Next]_vars

----------------------------------------------------------------------------
(* Properties *)

\* Every variable keeps its type.
TypeOK ==
    /\ DOMAIN entries \subseteq CacheKey
    /\ entries \in [DOMAIN entries -> CacheEntry]
    /\ eviction_order \in Seq(CacheKey)
    /\ pending \in Seq(CacheKey \X Times)
    /\ doomed \subseteq DOMAIN entries
    /\ writes \in [CacheKey -> 0..max_entries]

\* cache.rs:159, "Remove from eviction order to prevent ghost keys": the queue lists
\* exactly the keys of the map, each once, even in the middle of a batch or of an
\* invalidation.  A ghost would make an eviction remove nothing and the map
\* outgrow its bound.
NoGhostKeys ==
    /\ Range(eviction_order) = DOMAIN entries
    /\ IsInjective(eviction_order)

\* The map never holds more than max_entries entries.
CapacityBound == Cardinality(DOMAIN entries) <= max_entries

\* FIFO eviction is not unfair: capacity evicts an entry only on the
\* max_entries-th write after the entry was inserted, or later, whatever was
\* refreshed, expired or invalidated in between.
SurvivesMaxEntriesWrites ==
    [][\A k \in DOMAIN entries :
           k \notin DOMAIN entries' /\ DOMAIN entries' # {} /\ doomed = {}
           => writes[k] >= max_entries - 1]_vars
=============================================================================
