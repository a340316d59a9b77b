--------------------------- MODULE GatewayProofs ---------------------------
(***************************************************************************)
(* For every set of messages, any number of shards and all sizes: what the *)
(* gateway uplinks is stored, no emergency message is batched, and drops   *)
(* are counted.                                                            *)
(*                                                                         *)
(* The invariant says of every place a message can be in that what is      *)
(* there was stored before (Safe) and is no emergency message; the cache   *)
(* alone may hold translations of emergency messages, which is why hits go *)
(* up one by one.                                                          *)
(***************************************************************************)
EXTENDS Gateway, QueueTheorems, FiniteSetTheorems, WellFoundedInduction

Normal == Messages \ Emergency
Safe == stored \ Emergency
SafeItem == [req : Safe, as : Safe]
Hit == [req : Safe, as : stored \cup {None}]

SendersInv ==
    /\ stored \subseteq Messages
    /\ emergency \in [Emergency -> {"none", "stored", "uplink", "done"}]
    /\ \A m \in Emergency : emergency[m] # "none" => m \in stored
RoutingInv ==
    \/ routing = Idle
    \/ routing \in [stage : {"store"}, items : Seq(Normal)]
    \/ routing \in [stage : {"partition", "spread"}, items : Seq(Safe)]
    \/ routing \in [stage : {"emit"}, items : Seq(Hit) \ {<<>>}]
QueuesInv ==
    /\ inbox \in Seq(Normal) /\ batches \in Seq(Seq(Normal))
    /\ burst \in Seq(Safe) /\ queue \in [Tasks -> Seq(Safe)]
    /\ outbox \in Seq(SafeItem) /\ tx_batches \in Seq(Seq(SafeItem))
Busy == [stage : {"cache", "enqueue"}, items : Seq(SafeItem) \ {<<>>}]
WorkInv == work \in [Tasks -> Busy \cup {Idle}]
CacheInv == cache \in [Keys -> stored \cup {None}]
Upload == {u \in [req : stored, as : stored, via : {"single", "batch"}] :
             u.req \in Emergency => u.via = "single"}
CountInv ==
    /\ down \in [Messages -> Nat] /\ errors \in Nat
    /\ DropsAreCounted
HistoryInv == uplinked \subseteq Upload /\ CountInv

GatewayInv ==
    /\ SendersInv /\ RoutingInv /\ QueuesInv /\ WorkInv /\ CacheInv /\ HistoryInv

\* A sequence over a set is one over every larger set.
LEMMA SeqGrows ==
    ASSUME NEW S, NEW T, S \subseteq T
    PROVE  Seq(S) \subseteq Seq(T)
<1> SUFFICES ASSUME NEW s \in Seq(S) PROVE s \in Seq(T)
    OBVIOUS
<1>1. Len(s) \in Nat /\ s \in [1..Len(s) -> S]
    BY LenProperties
<1>2. s \in [1..Len(s) -> T]
    BY <1>1
<1> QED
    BY <1>1, <1>2, SeqDef

\* SubSeq of a prefix and of the rest stay within the set.
LEMMA Cut ==
    ASSUME NEW S, NEW s \in Seq(S), NEW k \in Nat, k <= Len(s)
    PROVE  /\ SubSeq(s, 1, k) \in Seq(S)
           /\ SubSeq(s, k + 1, Len(s)) \in Seq(S)
<1>1. Len(s) \in Nat /\ \A i \in 1..Len(s) : s[i] \in S
    BY LenProperties, ElementOfSeq
<1>2. \A i \in 1..k : s[i] \in S
    BY <1>1
<1>3. \A i \in (k + 1)..Len(s) : s[i] \in S
    BY <1>1
<1> QED
    BY <1>1, <1>2, <1>3, SubSeqProperties

\* The loops that emit a batch take its head and stop at the last one.
LEMMA TakeHead ==
    ASSUME NEW S, NEW s \in Seq(S), s # <<>>
    PROVE  /\ Head(s) \in S /\ Tail(s) \in Seq(S)
           /\ Len(s) # 1 => Tail(s) # <<>>
<1>1. Head(s) \in S /\ Tail(s) \in Seq(S) /\ Len(Tail(s)) = Len(s) - 1
    BY HeadTailProperties
<1>2. Len(s) \in Nat /\ Len(s) # 0
    BY LenProperties, EmptySeq
<1>3. ASSUME Len(s) # 1 PROVE Tail(s) # <<>>
    <2>1. Len(Tail(s)) # 0
        BY <1>1, <1>2, <1>3
    <2> QED
        BY <1>1, <2>1, EmptySeq
<1> QED
    BY <1>1, <1>3

\* Copied only selects: the result is a sequence of members of ms.
LEMMA CopiedSelects ==
    ASSUME NEW S, NEW ms \in Seq(S), NEW n, NEW s \in Copied(ms, n)
    PROVE  s \in Seq(S)
<1> DEFINE P == {p \in (DOMAIN ms) \X (1..duplicates) : p[2] <= n[ms[p[1]]]}
<1>1. duplicates \in Nat
    BY GatewayAssumption
<1>2. Len(ms) \in Nat /\ DOMAIN ms = 1..Len(ms)
    BY LenProperties
<1>3. IsFiniteSet(1..Len(ms)) /\ IsFiniteSet(1..duplicates)
    BY <1>1, <1>2, FS_Interval
<1>4. IsFiniteSet((DOMAIN ms) \X (1..duplicates))
    BY <1>2, <1>3, FS_Product
<1>5. Cardinality(P) \in Nat
    <2>1. P \in SUBSET ((DOMAIN ms) \X (1..duplicates))
        OBVIOUS
    <2>2. IsFiniteSet(P)
        BY <1>4, <2>1, FS_Subset
    <2> QED
        BY <2>2, FS_CardinalityType
<1>6. PICK f \in [1..Cardinality(P) -> P] : s = [a \in DOMAIN f |-> ms[f[a][1]]]
    BY DEF Copied
<1>7. \A p \in P : ms[p[1]] \in S
    BY <1>2, ElementOfSeq
<1> HIDE DEF P
<1>8. s \in [1..Cardinality(P) -> S]
    BY <1>6, <1>7
<1> QED
    BY <1>5, <1>8, SeqDef

\* How often a message occurs is a number, and zero if it does not occur.
LEMMA TimesProperties ==
    ASSUME NEW S, NEW s \in Seq(S), NEW m
    PROVE  /\ Times(s, m) \in Nat /\ TimesFor(s, m) \in Nat
           /\ (\A i \in DOMAIN s : s[i] # m) => Times(s, m) = 0
<1>1. Len(s) \in Nat /\ DOMAIN s = 1..Len(s) /\ IsFiniteSet(1..Len(s))
    BY LenProperties, FS_Interval
<1>2. ASSUME NEW T \in SUBSET (1..Len(s)) PROVE Cardinality(T) \in Nat
    BY <1>1, <1>2, FS_Subset, FS_CardinalityType
<1>3. Times(s, m) \in Nat /\ TimesFor(s, m) \in Nat
    BY <1>1, <1>2 DEF Times, TimesFor
<1>4. ASSUME \A i \in DOMAIN s : s[i] # m PROVE Times(s, m) = 0
    <2>1. {i \in DOMAIN s : s[i] = m} = {}
        BY <1>4
    <2> QED
        BY <2>1, FS_EmptySet DEF Times
<1> QED
    BY <1>3, <1>4

\* A non-empty set of positions has a last one.
LEMMA LastExists ==
    ASSUME NEW n \in Nat, NEW H \in SUBSET (1..n), H # {}
    PROVE  Max(H) \in H
<1> DEFINE D == {n - i : i \in H}
<1>1. D \subseteq Nat /\ D # {}
    <2>1. \A i \in H : i \in Int /\ i <= n
        OBVIOUS
    <2>2. \E i \in H : TRUE
        OBVIOUS
    <2>3. \A i \in H : n - i \in Nat
        BY <2>1
    <2> QED
        BY <2>2, <2>3
<1>2. PICK d \in D : \A e \in D : ~ (<<e, d>> \in OpToRel(<, Nat))
    BY <1>1, NatLessThanWellFounded, WFMin
<1>3. \A e \in D : ~ (e < d)
    BY <1>1, <1>2 DEF OpToRel
<1>4. PICK top \in H : d = n - top
    BY <1>2
<1>5. ASSUME NEW j \in H PROVE top >= j
    <2>1. n - j \in D
        OBVIOUS
    <2>2. ~ (n - j < n - top)
        BY <1>3, <1>4, <2>1
    <2> HIDE DEF D
    <2>3. n \in Int /\ j \in Int /\ top \in Int
        OBVIOUS
    <2> QED
        BY <2>2, <2>3
<1> QED
    BY <1>4, <1>5 DEF Max

\* What the stage of the routing task and of a worker says about what it holds.
LEMMA Stages ==
    ASSUME GatewayInv
    PROVE  /\ routing.stage = "store" => routing \in [stage : {"store"}, items : Seq(Normal)]
           /\ routing.stage \in {"partition", "spread"} => routing.items \in Seq(Safe)
           /\ routing.stage = "emit" => routing \in [stage : {"emit"}, items : Seq(Hit) \ {<<>>}]
           /\ \A t \in Tasks : work[t].stage # "idle" => work[t] \in Busy
<1>1. Idle.stage = "idle"
    BY DEF Idle
<1>2. ASSUME NEW t \in Tasks, work[t].stage # "idle" PROVE work[t] \in Busy
    <2>1. work[t] \in Busy \cup {Idle}
        BY DEF GatewayInv, WorkInv
    <2> QED
        BY <1>1, <1>2, <2>1
<1>3. routing = Idle => ~(routing.stage \in {"store", "partition", "spread", "emit"})
    BY <1>1
<1>4. routing # Idle => /\ routing.stage = "store" => routing \in [stage : {"store"}, items : Seq(Normal)]
                        /\ routing.stage \in {"partition", "spread"} => routing.items \in Seq(Safe)
                        /\ routing.stage = "emit" => routing \in [stage : {"emit"}, items : Seq(Hit) \ {<<>>}]
    BY DEF GatewayInv, RoutingInv
<1> QED
    BY <1>2, <1>3, <1>4

\* What the cache holds after a write was there before or is in the batch.
LEMMA CacheSetStored ==
    ASSUME CacheInv, NEW items \in Seq([req : stored, as : stored]), CacheSet(items)
    PROVE  cache' \in [Keys -> stored \cup {None}]
<1>1. Len(items) \in Nat /\ DOMAIN items = 1..Len(items)
    BY LenProperties
<1>2. \A i \in DOMAIN items : items[i].as \in stored
    <2>1. \A i \in 1..Len(items) : items[i] \in [req : stored, as : stored]
        BY ElementOfSeq
    <2> QED
        BY <1>1, <2>1
<1>3. ASSUME NEW k \in Keys
      PROVE  LET hits == {i \in DOMAIN items : Key(items[i].req) = k}
             IN  (IF hits = {} THEN cache[k] ELSE items[Max(hits)].as) \in stored \cup {None}
    <2> DEFINE hits == {i \in DOMAIN items : Key(items[i].req) = k}
    <2>1. CASE hits = {}
        BY <2>1 DEF CacheInv
    <2>2. CASE hits # {}
        <3>1. hits \in SUBSET (1..Len(items))
            BY <1>1
        <3> HIDE DEF hits
        <3>2. Max(hits) \in hits
            BY <1>1, <2>2, <3>1, LastExists
        <3>3. items[Max(hits)].as \in stored
            BY <1>1, <1>2, <3>1, <3>2
        <3> QED
            BY <2>2, <3>3 DEF hits
    <2> QED
        BY <2>1, <2>2
<1> QED
    BY <1>3 DEF CacheSet

\* A request takes up only what is in it, and counts what it loses.
LEMMA UplinkRecorded ==
    ASSUME HistoryInv, NEW items \in Seq([req : stored, as : stored]),
           NEW via \in {"single", "batch"},
           via = "single" \/ \A i \in DOMAIN items : items[i].req \notin Emergency,
           Uplink(items, via)
    PROVE  uplinked' \subseteq Upload /\ CountInv'
<1>1. CASE /\ uplinked' = uplinked \cup {[req |-> it.req, as |-> it.as, via |-> via] : it \in Range(items)}
           /\ UNCHANGED <<down, errors>>
    <2>1. CountInv'
        BY <1>1 DEF HistoryInv, CountInv, DropsAreCounted
    <2>2. ASSUME NEW it \in Range(items)
          PROVE  [req |-> it.req, as |-> it.as, via |-> via] \in Upload
        <3>1. PICK i \in DOMAIN items : it = items[i]
            BY <2>2 DEF Range
        <3>2. it \in [req : stored, as : stored]
            BY <3>1, LenProperties, ElementOfSeq
        <3> QED
            BY <3>1, <3>2 DEF Upload
    <2> QED
        BY <1>1, <2>1, <2>2 DEF HistoryInv
<1>2. CASE /\ down' = [m \in Messages |-> down[m] + TimesFor(items, m)]
           /\ errors' = errors + 1
           /\ UNCHANGED uplinked
    <2>1. \A m \in Messages : TimesFor(items, m) \in Nat
        BY TimesProperties
    <2>2. down' \in [Messages -> Nat] /\ errors' \in Nat /\ errors' # 0
        BY <1>2, <2>1 DEF HistoryInv, CountInv
    <2> QED
        BY <1>2, <2>2 DEF HistoryInv, CountInv, DropsAreCounted
<1> QED
    BY <1>1, <1>2 DEF Uplink

\* Storing messages keeps everything that was in its place there.
LEMMA StoringKeeps ==
    ASSUME GatewayInv, stored \subseteq stored', stored' \subseteq Messages,
           UNCHANGED <<inbox, batches, burst, queue, work, cache, outbox, tx_batches,
                       uplinked, down, errors>>
    PROVE  /\ QueuesInv' /\ WorkInv' /\ CacheInv' /\ HistoryInv'
           /\ Seq(Safe) \subseteq Seq(Safe') /\ Seq(Hit) \subseteq Seq(Hit')
<1>1. Safe \subseteq Safe' /\ SafeItem \subseteq SafeItem' /\ Hit \subseteq Hit'
    BY DEF Safe, SafeItem, Hit
<1>2. /\ Seq(Safe) \subseteq Seq(Safe') /\ Seq(SafeItem) \subseteq Seq(SafeItem')
      /\ Seq(Hit) \subseteq Seq(Hit')
    BY <1>1, SeqGrows
<1>3. Seq(Seq(SafeItem)) \subseteq Seq(Seq(SafeItem'))
    BY <1>2, SeqGrows
<1>4. QueuesInv'
    BY <1>2, <1>3 DEF GatewayInv, QueuesInv, Normal
<1>5. WorkInv'
    <2>1. Busy \subseteq Busy'
        BY <1>2 DEF Busy
    <2> QED
        BY <2>1 DEF GatewayInv, WorkInv, Idle, Tasks, Spread
<1>6. CacheInv'
    BY DEF GatewayInv, CacheInv
<1>7. HistoryInv'
    <2>1. Upload \subseteq Upload'
        BY DEF Upload
    <2> QED
        BY <2>1 DEF GatewayInv, HistoryInv, CountInv, DropsAreCounted
<1> QED
    BY <1>2, <1>4, <1>5, <1>6, <1>7

\* A step that stores nothing keeps what the places may hold, and a place that it does
\* not touch.
LEMMA Untouched ==
    ASSUME GatewayInv, UNCHANGED stored
    PROVE  /\ Normal' = Normal /\ Safe' = Safe /\ SafeItem' = SafeItem /\ Hit' = Hit
           /\ Busy' = Busy /\ Upload' = Upload /\ Tasks' = Tasks /\ Idle' = Idle
           /\ UNCHANGED emergency => SendersInv'
           /\ UNCHANGED routing => RoutingInv'
           /\ UNCHANGED work => WorkInv'
           /\ UNCHANGED cache => CacheInv'
           /\ UNCHANGED <<down, errors>> => CountInv'
<1>1. /\ Normal' = Normal /\ Safe' = Safe /\ SafeItem' = SafeItem /\ Hit' = Hit
      /\ Busy' = Busy /\ Upload' = Upload /\ Tasks' = Tasks /\ Idle' = Idle
    BY DEF Normal, Safe, SafeItem, Hit, Busy, Upload, Tasks, Idle
<1>2. UNCHANGED emergency => SendersInv'
    BY DEF GatewayInv, SendersInv
<1>3. UNCHANGED routing => RoutingInv'
    BY <1>1 DEF GatewayInv, RoutingInv
<1>4. UNCHANGED work => WorkInv'
    BY <1>1 DEF GatewayInv, WorkInv
<1>5. UNCHANGED cache => CacheInv'
    BY DEF GatewayInv, CacheInv
<1>6. UNCHANGED <<down, errors>> => CountInv'
    BY DEF GatewayInv, HistoryInv, CountInv, DropsAreCounted
<1> QED
    BY <1>1, <1>2, <1>3, <1>4, <1>5, <1>6

\* send() and the emergency path preserve the invariant.
LEMMA SenderStep ==
    ASSUME GatewayInv, NEW m \in Messages,
           \/ SendNormal(m)
           \/ m \in Emergency /\ (SendEmergency(m) \/ EmergencyStep(m))
    PROVE  GatewayInv'
<1> USE GatewayAssumption
<1>1. CASE SendNormal(m)
    <2>1. m \in Normal /\ inbox' = Append(inbox, m) /\ batches' = batches
        BY <1>1 DEF SendNormal, Normal, Incoming!Accept
    <2>2. UNCHANGED <<emergency, routing, burst, queue, work, cache, stored, outbox, tx_batches,
                      uplinked, down, errors>>
        BY <1>1 DEF SendNormal, shards, history
    <2>3. QueuesInv'
        BY <2>1, <2>2, Untouched DEF GatewayInv, QueuesInv
    <2> QED
        BY <2>2, <2>3, Untouched DEF GatewayInv, HistoryInv
<1>2. CASE m \in Emergency /\ SendEmergency(m)
    <2>1. /\ stored' = stored \cup {m} /\ emergency' = [emergency EXCEPT ![m] = "stored"]
          /\ UNCHANGED <<inbox, batches, routing, burst, queue, work, cache, outbox, tx_batches,
                         uplinked, down, errors>>
        BY <1>2 DEF SendEmergency, shards
    <2>2. SendersInv'
        BY <1>2, <2>1 DEF GatewayInv, SendersInv
    <2>3. /\ QueuesInv' /\ WorkInv' /\ CacheInv' /\ HistoryInv'
          /\ Seq(Safe) \subseteq Seq(Safe') /\ Seq(Hit) \subseteq Seq(Hit')
        BY <2>1, <2>2, StoringKeeps DEF SendersInv
    <2>4. RoutingInv'
        BY <2>1, <2>3 DEF GatewayInv, RoutingInv, Normal, Idle
    <2> QED
        BY <2>2, <2>3, <2>4 DEF GatewayInv
<1>3. CASE m \in Emergency /\ EmergencyTranslate(m)
    <2>1. UNCHANGED <<inbox, batches, routing, burst, queue, work, stored, outbox, tx_batches, uplinked>>
        BY <1>3 DEF EmergencyTranslate
    <2>2. m \in stored
        BY <1>3 DEF EmergencyTranslate, GatewayInv, SendersInv
    <2>3. SendersInv'
        BY <1>3, <2>1, <2>2 DEF EmergencyTranslate, GatewayInv, SendersInv
    <2>4. CacheInv'
        <3>1. CASE CacheSet(Translated(<<m>>))
            <4>1. Translated(<<m>>) \in Seq([req : stored, as : stored])
                BY <2>2 DEF Translated
            <4> QED
                BY <2>1, <3>1, <4>1, CacheSetStored DEF GatewayInv, CacheInv
        <3>2. CASE UNCHANGED cache
            BY <2>1, <3>2 DEF GatewayInv, CacheInv
        <3> QED
            BY <1>3, <3>1, <3>2 DEF EmergencyTranslate
    <2>5. CountInv'
        <3>1. CASE UNCHANGED <<down, errors>>
            BY <3>1 DEF GatewayInv, HistoryInv, CountInv, DropsAreCounted
        <3>2. CASE down' = [down EXCEPT ![m] = @ + 1] /\ errors' = errors + 1
            BY <3>2 DEF GatewayInv, HistoryInv, CountInv, DropsAreCounted
        <3> QED
            BY <1>3, <3>1, <3>2 DEF EmergencyTranslate
    <2> QED
        BY <2>1, <2>3, <2>4, <2>5, Untouched DEF GatewayInv, QueuesInv, HistoryInv
<1>4. CASE m \in Emergency /\ EmergencyUplink(m)
    <2>1. UNCHANGED <<inbox, batches, routing, burst, queue, work, cache, stored, outbox, tx_batches>>
        BY <1>4 DEF EmergencyUplink, shards
    <2>2. m \in stored
        BY <1>4 DEF EmergencyUplink, GatewayInv, SendersInv
    <2>3. SendersInv'
        BY <1>4, <2>1, <2>2 DEF EmergencyUplink, GatewayInv, SendersInv
    <2>4. HistoryInv'
        <3>1. Translated(<<m>>) \in Seq([req : stored, as : stored])
            BY <2>2 DEF Translated
        <3>2. uplinked' \subseteq Upload /\ CountInv'
            BY <1>4, <3>1, UplinkRecorded DEF EmergencyUplink, GatewayInv
        <3> QED
            BY <2>1, <3>2 DEF HistoryInv, Upload
    <2> QED
        BY <2>1, <2>3, <2>4, Untouched DEF GatewayInv, QueuesInv
<1> QED
    BY <1>1, <1>2, <1>3, <1>4 DEF EmergencyStep

\* Batching, taking and storing a batch, and the partition preserve the invariant.
LEMMA IncomingStep ==
    ASSUME GatewayInv, BatchIncoming \/ TakeIncoming \/ StoreBatch \/ Partition
    PROVE  GatewayInv'
<1> USE GatewayAssumption
<1>1. CASE BatchIncoming
    <2>1. UNCHANGED <<emergency, routing, burst, queue, work, cache, stored, outbox, tx_batches,
                      uplinked, down, errors>>
        BY <1>1 DEF BatchIncoming, senders, shards, history
    <2>2. PICK k \in 1..max_batch_size :
               /\ k <= Len(inbox) /\ inbox' = SubSeq(inbox, k + 1, Len(inbox))
               /\ batches' = Append(batches, SubSeq(inbox, 1, k))
        BY <1>1 DEF BatchIncoming, Incoming!EmitSome, Incoming!Emit
    <2>3. SubSeq(inbox, 1, k) \in Seq(Normal) /\ inbox' \in Seq(Normal)
        <3>1. k \in Nat /\ inbox \in Seq(Normal)
            BY DEF GatewayInv, QueuesInv
        <3> QED
            BY <2>2, <3>1, Cut
    <2>4. batches' \in Seq(Seq(Normal))
        BY <2>2, <2>3, AppendProperties DEF GatewayInv, QueuesInv
    <2> QED
        BY <2>1, <2>3, <2>4, Untouched DEF GatewayInv, QueuesInv, HistoryInv
<1>2. CASE TakeIncoming
    <2>1. UNCHANGED <<emergency, inbox, burst, queue, work, cache, stored, outbox, tx_batches,
                      uplinked, down, errors>>
        BY <1>2 DEF TakeIncoming, Incoming!Take, senders, shards, history
    <2>2. batches # <<>> /\ batches' = Tail(batches)
        BY <1>2 DEF TakeIncoming, Incoming!Take
    <2>3. batches' \in Seq(Seq(Normal)) /\ Head(batches) \in Seq(Normal)
        BY <2>2, HeadTailProperties DEF GatewayInv, QueuesInv
    <2>4. routing' \in [stage : {"store"}, items : Seq(Normal)]
        BY <1>2, <2>3 DEF TakeIncoming
    <2> QED
        BY <2>1, <2>3, <2>4, Untouched DEF GatewayInv, RoutingInv, QueuesInv, HistoryInv
<1>3. CASE StoreBatch
    <2>1. /\ stored' = stored \cup Range(routing.items)
          /\ routing' = [routing EXCEPT !.stage = "partition"]
          /\ UNCHANGED <<emergency, inbox, batches, burst, queue, work, cache, outbox, tx_batches,
                         uplinked, down, errors>>
        BY <1>3 DEF StoreBatch, senders, shards, history
    <2>2. routing \in [stage : {"store"}, items : Seq(Normal)]
        BY <1>3, Stages DEF StoreBatch
    <2>3. /\ Range(routing.items) \subseteq Normal
          /\ routing.items \in Seq(Range(routing.items))
        <3>1. routing.items \in Seq(Normal) /\ Len(routing.items) \in Nat
              /\ DOMAIN routing.items = 1..Len(routing.items)
            BY <2>2, LenProperties
        <3>2. \A i \in 1..Len(routing.items) : routing.items[i] \in Normal
            BY <3>1, ElementOfSeq
        <3>3. routing.items \in [1..Len(routing.items) -> Range(routing.items)]
            BY <3>1 DEF Range
        <3>4. Range(routing.items) \subseteq Normal
            BY <3>1, <3>2 DEF Range
        <3> QED
            BY <3>1, <3>3, <3>4, SeqDef
    <2>4. SendersInv'
        BY <2>1, <2>3 DEF GatewayInv, SendersInv, Normal
    <2>5. QueuesInv' /\ WorkInv' /\ CacheInv' /\ HistoryInv'
        BY <2>1, <2>4, StoringKeeps DEF SendersInv
    <2>6. RoutingInv'
        <3>1. Range(routing.items) \subseteq Safe'
            BY <2>1, <2>3 DEF Safe, Normal
        <3>2. routing.items \in Seq(Safe')
            BY <2>3, <3>1, SeqGrows
        <3> QED
            BY <2>1, <2>2, <3>2 DEF RoutingInv
    <2> QED
        BY <2>4, <2>5, <2>6 DEF GatewayInv
<1>4. CASE Partition
    <2>1. UNCHANGED <<emergency, inbox, batches, queue, work, cache, stored, outbox, tx_batches,
                      uplinked, down, errors>>
        BY <1>4 DEF Partition, senders, shards
    <2>2. routing.items \in Seq(Safe)
        BY <1>4, Stages DEF Partition
    <2>3. PICK high \in SUBSET (Range(routing.items) \cap Late) :
              /\ burst' \in Copied(routing.items, [n \in Messages |-> IF n \in high THEN 1 ELSE 0])
              /\ \E normal \in Copied(routing.items,
                                      [n \in Messages |-> IF n \in high THEN 0 ELSE Repeats(n)]) :
                     routing' = [stage |-> "spread", items |-> normal]
        BY <1>4 DEF Partition
    <2>4. burst' \in Seq(Safe)
        BY <2>2, <2>3, CopiedSelects
    <2>5. routing' \in [stage : {"partition", "spread"}, items : Seq(Safe)]
        BY <2>2, <2>3, CopiedSelects
    <2> QED
        BY <2>1, <2>4, <2>5, Untouched DEF GatewayInv, RoutingInv, QueuesInv, HistoryInv
<1> QED
    BY <1>1, <1>2, <1>3, <1>4

\* Pushing, looking up and emitting preserve the invariant.
LEMMA EmitStep ==
    ASSUME GatewayInv, PushSpread \/ LookupBatch \/ EmitHit \/ EmitMiss
    PROVE  GatewayInv'
<1> USE GatewayAssumption
<1> DEFINE head == Head(routing.items)
<1>1. ASSUME routing.stage = "emit", UNCHANGED stored
      PROVE  head \in Hit /\ (routing' = Rest => RoutingInv')
    <2>1. routing \in [stage : {"emit"}, items : Seq(Hit) \ {<<>>}]
        BY <1>1, Stages
    <2>2. routing.items \in Seq(Hit) /\ routing.items # <<>>
        BY <2>1
    <2>3. /\ head \in Hit /\ Tail(routing.items) \in Seq(Hit)
          /\ Len(routing.items) # 1 => Tail(routing.items) # <<>>
        BY <2>2, TakeHead
    <2>4. Rest = Idle \/ Rest \in [stage : {"emit"}, items : Seq(Hit) \ {<<>>}]
        BY <2>1, <2>2, <2>3 DEF Rest
    <2> QED
        BY <1>1, <2>3, <2>4 DEF RoutingInv, Hit, Safe, Idle
<1>2. CASE PushSpread
    <2>1. UNCHANGED <<emergency, inbox, batches, routing, work, cache, stored, outbox, tx_batches,
                      uplinked, down, errors>>
        BY <1>2 DEF PushSpread, senders
    <2>2. burst # <<>> /\ burst' = Tail(burst)
        BY <1>2 DEF PushSpread
    <2>3. burst' \in Seq(Safe) /\ Head(burst) \in Safe
        BY <2>2, HeadTailProperties DEF GatewayInv, QueuesInv
    <2>4. queue' \in [Tasks -> Seq(Safe)]
        <3>1. CASE UNCHANGED queue
            BY <3>1 DEF GatewayInv, QueuesInv
        <3>2. CASE queue' = [queue EXCEPT ![Spread] = Append(@, Head(burst))]
            <4>1. queue \in [Tasks -> Seq(Safe)] /\ Spread \in Tasks
                BY DEF GatewayInv, QueuesInv, Tasks
            <4>2. Append(queue[Spread], Head(burst)) \in Seq(Safe)
                BY <2>3, <4>1, AppendProperties
            <4> QED
                BY <3>2, <4>1, <4>2
        <3> QED
            BY <1>2, <3>1, <3>2 DEF PushSpread
    <2> QED
        BY <2>1, <2>3, <2>4, Untouched DEF GatewayInv, QueuesInv, HistoryInv
<1>3. CASE LookupBatch
    <2>1. UNCHANGED <<emergency, inbox, batches, burst, queue, work, cache, stored, outbox,
                      tx_batches, uplinked, down, errors>>
        BY <1>3 DEF LookupBatch, senders, shards, history
    <2>2. routing.items \in Seq(Safe)
        BY <1>3, Stages DEF LookupBatch
    <2> DEFINE found == [i \in DOMAIN routing.items |->
                           [req |-> routing.items[i], as |-> cache[Key(routing.items[i])]]]
    <2>3. found \in Seq(Hit)
        <3>1. Len(routing.items) \in Nat /\ DOMAIN routing.items = 1..Len(routing.items)
            BY <2>2, LenProperties
        <3>2. \A i \in 1..Len(routing.items) : routing.items[i] \in Safe
            BY <2>2, ElementOfSeq
        <3>3. \A m \in Safe : cache[Key(m)] \in stored \cup {None}
            BY DEF Safe, Keys, GatewayInv, SendersInv, CacheInv
        <3>4. found \in [1..Len(routing.items) -> Hit]
            BY <3>1, <3>2, <3>3 DEF Hit
        <3> HIDE DEF found
        <3> QED
            BY <3>1, <3>4, SeqDef
    <2>4. routing.items # <<>> => found # <<>>
        <3>1. DOMAIN found = 1..Len(routing.items) /\ Len(routing.items) \in Nat
            BY <2>2, LenProperties
        <3>2. routing.items # <<>> => Len(routing.items) # 0
            BY <2>2, EmptySeq
        <3>3. found = <<>> => DOMAIN found = {}
            OBVIOUS
        <3> HIDE DEF found
        <3> QED
            BY <3>1, <3>2, <3>3
    <2> HIDE DEF found
    <2>5. routing' = Idle \/ routing' \in [stage : {"emit"}, items : Seq(Hit) \ {<<>>}]
        BY <1>3, <2>3, <2>4 DEF LookupBatch, found
    <2> QED
        BY <2>1, <2>5, Untouched DEF GatewayInv, RoutingInv, QueuesInv, HistoryInv
<1>4. CASE EmitHit
    <2>1. UNCHANGED <<emergency, inbox, batches, burst, queue, work, cache, stored, outbox, tx_batches>>
        BY <1>4 DEF EmitHit, senders, shards
    <2>2. head \in Hit /\ head.as # None /\ RoutingInv'
        BY <1>1, <1>4, <2>1 DEF EmitHit
    <2>3. <<head>> \in Seq([req : stored, as : stored])
        BY <2>2 DEF Hit, Safe
    <2>4. uplinked' \subseteq Upload /\ CountInv'
        BY <1>4, <2>3, UplinkRecorded DEF EmitHit, GatewayInv
    <2> HIDE DEF head
    <2> QED
        BY <2>1, <2>2, <2>4, Untouched DEF GatewayInv, QueuesInv, HistoryInv
<1>5. CASE EmitMiss
    <2>1. UNCHANGED <<emergency, inbox, batches, burst, work, cache, stored, outbox, tx_batches, uplinked>>
        BY <1>5 DEF EmitMiss, senders
    <2>2. head \in Hit /\ RoutingInv'
        BY <1>1, <1>5, <2>1 DEF EmitMiss
    <2>3. head.req \in Safe /\ head.req \in Messages
        BY <2>2 DEF Hit, Safe, GatewayInv, SendersInv
    <2> DEFINE id == 1 + round_robin
               m == head.req
    <2>4. \/ queue' = [queue EXCEPT ![id] = Append(@, m)] /\ UNCHANGED <<down, errors>>
          \/ down' = [down EXCEPT ![m] = @ + 1] /\ errors' = errors + 1 /\ UNCHANGED queue
        BY <1>5 DEF EmitMiss
    <2>5. queue \in [Tasks -> Seq(Safe)]
        BY DEF GatewayInv, QueuesInv
    <2> HIDE DEF id, head
    <2>6. queue' \in [Tasks -> Seq(Safe)]
        <3>1. CASE queue' = [queue EXCEPT ![id] = Append(@, m)]
            <4>1. \A t \in Tasks : Append(queue[t], m) \in Seq(Safe)
                BY <2>3, <2>5, AppendProperties
            <4> QED
                BY <2>5, <3>1, <4>1
        <3> QED
            BY <2>4, <2>5, <3>1
    <2>7. CountInv'
        BY <2>3, <2>4 DEF GatewayInv, HistoryInv, CountInv, DropsAreCounted
    <2> HIDE DEF m
    <2> QED
        BY <2>1, <2>2, <2>6, <2>7, Untouched DEF GatewayInv, QueuesInv, HistoryInv
<1> QED
    BY <1>2, <1>3, <1>4, <1>5

\* The shard workers and the spread drainer preserve the invariant.
LEMMA WorkerStep ==
    ASSUME GatewayInv, NEW t \in Tasks, WorkStep(t)
    PROVE  GatewayInv'
<1> USE GatewayAssumption
<1>1. ASSUME NEW k, TakeWork(t, k) PROVE GatewayInv'
    <2> DEFINE ms == SubSeq(queue[t], 1, k)
               rest == SubSeq(queue[t], k + 1, Len(queue[t]))
               bad == {i \in DOMAIN ms : ms[i] \in Invalid}
    <2>1. UNCHANGED <<emergency, inbox, batches, routing, burst, cache, stored, outbox, tx_batches, uplinked>>
        BY <1>1 DEF TakeWork, senders
    <2>2. queue \in [Tasks -> Seq(Safe)] /\ work \in [Tasks -> Busy \cup {Idle}]
        BY DEF GatewayInv, QueuesInv, WorkInv
    <2>3. k \in Nat /\ k <= Len(queue[t])
        <3>1. Len(queue[t]) \in Nat
            BY <2>2, LenProperties
        <3>2. k \in 1..Len(queue[t])
            BY <1>1 DEF TakeWork
        <3> QED
            BY <3>1, <3>2
    <2>4. ms \in Seq(Safe) /\ rest \in Seq(Safe)
        BY <2>2, <2>3, Cut
    <2>5. /\ queue' = [queue EXCEPT ![t] = rest]
          /\ down' = [m \in Messages |-> down[m] + IF m \in Invalid THEN Times(ms, m) ELSE 0]
          /\ errors' = errors + Cardinality(bad)
        BY <1>1 DEF TakeWork
    <2>6. PICK valid \in Copied(ms, [m \in Messages |-> IF m \in Invalid THEN 0 ELSE 1]) :
              work' = [work EXCEPT ![t] = IF valid = <<>> THEN Idle
                                          ELSE [stage |-> "cache", items |-> Translated(valid)]]
        BY <1>1 DEF TakeWork
    <2> HIDE DEF ms, rest
    <2>7. queue' \in [Tasks -> Seq(Safe)]
        BY <2>2, <2>4, <2>5
    <2>8. work' \in [Tasks -> Busy \cup {Idle}]
        <3>1. valid \in Seq(Safe)
            BY <2>4, <2>6, CopiedSelects
        <3>2. ASSUME valid # <<>>
              PROVE  Translated(valid) \in Seq(SafeItem) \ {<<>>}
            <4>1. Len(valid) \in Nat /\ DOMAIN valid = 1..Len(valid) /\ Len(valid) # 0
                BY <3>1, <3>2, LenProperties, EmptySeq
            <4>2. \A i \in 1..Len(valid) : valid[i] \in Safe
                BY <3>1, ElementOfSeq
            <4>3. Translated(valid) \in [1..Len(valid) -> SafeItem]
                BY <4>1, <4>2 DEF Translated, SafeItem
            <4>4. Translated(valid) \in Seq(SafeItem)
                BY <4>1, <4>3, SeqDef
            <4>5. DOMAIN Translated(valid) # {}
                BY <4>1, <4>3
            <4> QED
                BY <4>4, <4>5
        <3> QED
            BY <2>2, <2>6, <3>2 DEF Busy
    <2>9. CountInv'
        <3>1. \A m \in Messages : Times(ms, m) \in Nat
            BY <2>4, TimesProperties
        <3>2. IsFiniteSet(bad)
            <4>1. Len(ms) \in Nat /\ DOMAIN ms = 1..Len(ms) /\ IsFiniteSet(1..Len(ms))
                BY <2>4, LenProperties, FS_Interval
            <4> QED
                BY <4>1, FS_Subset
        <3>3. Cardinality(bad) \in Nat /\ (Cardinality(bad) = 0 => bad = {})
            BY <3>2, FS_CardinalityType, FS_EmptySet
        <3>4. ASSUME bad = {} PROVE \A m \in Invalid : Times(ms, m) = 0
            BY <2>4, <3>4, TimesProperties
        <3> HIDE DEF bad
        <3>5. down' \in [Messages -> Nat] /\ errors' \in Nat
            BY <2>5, <3>1, <3>3 DEF GatewayInv, HistoryInv, CountInv
        <3>6. DropsAreCounted'
            <4> SUFFICES ASSUME errors' = 0, NEW m \in Messages PROVE down'[m] = 0
                BY DEF DropsAreCounted
            <4>1. errors = 0 /\ bad = {}
                BY <2>5, <3>3 DEF GatewayInv, HistoryInv, CountInv
            <4> QED
                BY <2>5, <3>4, <4>1 DEF GatewayInv, HistoryInv, CountInv, DropsAreCounted
        <3> QED
            BY <3>5, <3>6 DEF CountInv
    <2> QED
        BY <2>1, <2>7, <2>8, <2>9, Untouched DEF GatewayInv, QueuesInv, WorkInv, HistoryInv
<1>2. CASE CacheWork(t)
    <2>1. UNCHANGED <<emergency, inbox, batches, routing, burst, queue, stored, outbox, tx_batches,
                      uplinked, down, errors>>
        BY <1>2 DEF CacheWork, senders, shards, history
    <2>2. work[t] \in Busy
        BY <1>2, Stages DEF CacheWork
    <2>3. CacheInv'
        <3>1. SafeItem \subseteq [req : stored, as : stored]
            BY DEF SafeItem, Safe
        <3>2. Seq(SafeItem) \subseteq Seq([req : stored, as : stored])
            BY <3>1, SeqGrows
        <3>3. work[t].items \in Seq([req : stored, as : stored])
            BY <2>2, <3>2 DEF Busy
        <3> QED
            BY <1>2, <2>1, <3>3, CacheSetStored DEF CacheWork, GatewayInv, CacheInv
    <2>4. work' \in [Tasks -> Busy \cup {Idle}]
        BY <1>2, <2>2 DEF CacheWork, GatewayInv, WorkInv, Busy
    <2> QED
        BY <2>1, <2>3, <2>4, Untouched DEF GatewayInv, QueuesInv, WorkInv, HistoryInv
<1>3. CASE EnqueueWork(t)
    <2> DEFINE items == work[t].items
    <2>1. UNCHANGED <<emergency, inbox, batches, routing, burst, queue, cache, stored, uplinked,
                      down, errors>>
        BY <1>3 DEF EnqueueWork, senders, shards, history
    <2>2. outbox' = Append(outbox, Head(items)) /\ tx_batches' = tx_batches
        BY <1>3 DEF EnqueueWork, Outgoing!Accept
    <2>3. work[t] \in Busy
        BY <1>3, Stages DEF EnqueueWork
    <2>4. /\ items \in Seq(SafeItem) /\ items # <<>>
          /\ Head(items) \in SafeItem /\ Tail(items) \in Seq(SafeItem)
          /\ Len(items) # 1 => Tail(items) # <<>>
        <3>1. items \in Seq(SafeItem) /\ items # <<>>
            BY <2>3 DEF Busy
        <3> HIDE DEF items
        <3> QED
            BY <3>1, TakeHead
    <2>5. outbox' \in Seq(SafeItem)
        BY <2>2, <2>4, AppendProperties DEF GatewayInv, QueuesInv
    <2>6. work' = [work EXCEPT ![t] = IF Len(items) = 1 THEN Idle
                                      ELSE [stage |-> "enqueue", items |-> Tail(items)]]
        BY <1>3 DEF EnqueueWork
    <2>7. work' \in [Tasks -> Busy \cup {Idle}]
        <3>1. Len(items) # 1 => [stage |-> "enqueue", items |-> Tail(items)] \in Busy
            BY <2>4 DEF Busy
        <3> HIDE DEF items
        <3> QED
            BY <2>6, <3>1 DEF GatewayInv, WorkInv
    <2> HIDE DEF items
    <2> QED
        BY <2>1, <2>2, <2>5, <2>7, Untouched DEF GatewayInv, QueuesInv, WorkInv, HistoryInv
<1> QED
    BY <1>1, <1>2, <1>3 DEF WorkStep, WorkerTake, DrainSpread

\* The transmission batcher and its consumer preserve the invariant.
LEMMA OutgoingStep ==
    ASSUME GatewayInv, BatchOutgoing \/ SendBatchToAsts
    PROVE  GatewayInv'
<1> USE GatewayAssumption
<1>1. UNCHANGED <<emergency, inbox, batches, routing, burst, queue, work, cache, stored>>
    BY DEF BatchOutgoing, SendBatchToAsts, senders, shards
<1>2. CASE BatchOutgoing
    <2>1. UNCHANGED <<uplinked, down, errors>>
        BY <1>2 DEF BatchOutgoing, history
    <2>2. PICK k \in 1..tx_batch_size :
               /\ k <= Len(outbox) /\ outbox' = SubSeq(outbox, k + 1, Len(outbox))
               /\ tx_batches' = Append(tx_batches, SubSeq(outbox, 1, k))
        BY <1>2 DEF BatchOutgoing, Outgoing!EmitSome, Outgoing!Emit
    <2>3. SubSeq(outbox, 1, k) \in Seq(SafeItem) /\ outbox' \in Seq(SafeItem)
        <3>1. k \in Nat /\ outbox \in Seq(SafeItem)
            BY DEF GatewayInv, QueuesInv
        <3> QED
            BY <2>2, <3>1, Cut
    <2>4. tx_batches' \in Seq(Seq(SafeItem))
        BY <2>2, <2>3, AppendProperties DEF GatewayInv, QueuesInv
    <2> QED
        BY <1>1, <2>1, <2>3, <2>4, Untouched DEF GatewayInv, QueuesInv, HistoryInv
<1>3. CASE SendBatchToAsts
    <2>1. /\ tx_batches # <<>> /\ tx_batches' = Tail(tx_batches) /\ outbox' = outbox
          /\ Uplink(Head(tx_batches), "batch")
        BY <1>3 DEF SendBatchToAsts, Outgoing!Take
    <2>2. tx_batches' \in Seq(Seq(SafeItem)) /\ Head(tx_batches) \in Seq(SafeItem)
        BY <2>1, TakeHead DEF GatewayInv, QueuesInv
    <2>3. uplinked' \subseteq Upload /\ CountInv'
        <3>1. SafeItem \subseteq [req : stored, as : stored]
            BY DEF SafeItem, Safe
        <3>2. Seq(SafeItem) \subseteq Seq([req : stored, as : stored])
            BY <3>1, SeqGrows
        <3>3. \A i \in DOMAIN Head(tx_batches) : Head(tx_batches)[i] \in SafeItem
            BY <2>2, LenProperties, ElementOfSeq
        <3>4. \A i \in DOMAIN Head(tx_batches) : Head(tx_batches)[i].req \notin Emergency
            BY <3>3 DEF SafeItem, Safe
        <3>5. HistoryInv
            BY DEF GatewayInv
        <3> QED
            BY <2>1, <2>2, <3>2, <3>4, <3>5, UplinkRecorded
    <2> QED
        BY <1>1, <2>1, <2>2, <2>3, Untouched DEF GatewayInv, QueuesInv, HistoryInv
<1> QED
    BY <1>2, <1>3

\* The invariant survives every step.
LEMMA GatewayStep ==
    ASSUME GatewayInv, [Next]_vars
    PROVE  GatewayInv'
<1>1. ASSUME UNCHANGED <<emergency, inbox, batches, routing, burst, queue, work, stored, outbox,
                         tx_batches, uplinked, down, errors>>,
             CacheInv'
      PROVE  GatewayInv'
    BY <1>1, Untouched DEF GatewayInv, QueuesInv, HistoryInv
<1>2. ASSUME NEW k \in Keys, CacheForget(k) PROVE GatewayInv'
    <2>1. CacheInv'
        BY <1>2 DEF CacheForget, GatewayInv, CacheInv
    <2> QED
        BY <1>1, <1>2, <2>1 DEF CacheForget, senders, shards, history
<1>3. CASE LinkDown \/ LinkUp \/ UNCHANGED vars
    <2>1. UNCHANGED <<emergency, inbox, batches, routing, burst, queue, work, cache, stored, outbox,
                      tx_batches, uplinked, down, errors>>
        BY <1>3 DEF LinkDown, LinkUp, vars, senders, shards, history
    <2>2. CacheInv'
        BY <2>1 DEF GatewayInv, CacheInv
    <2> QED
        BY <1>1, <2>1, <2>2
<1>4. Emergency \subseteq Messages
    BY GatewayAssumption
<1>5. CASE BatchIncoming \/ RoutingStep
    BY <1>5, IncomingStep, EmitStep DEF RoutingStep
<1> QED
    BY <1>2, <1>3, <1>4, <1>5, SenderStep, WorkerStep, OutgoingStep DEF Next

\* It holds at the start, so it always holds.
LEMMA GatewayInvariant == Spec => []GatewayInv
<1>1. Init => GatewayInv
    <2> SUFFICES ASSUME Init PROVE GatewayInv
        OBVIOUS
    <2>1. CountInv
        BY DEF Init, CountInv, DropsAreCounted
    <2>2. \A S : <<>> \in Seq(S)
        OBVIOUS
    <2> QED
        BY <2>1, <2>2 DEF Init, GatewayInv, SendersInv, RoutingInv, QueuesInv, WorkInv, CacheInv,
                          HistoryInv
<1>2. GatewayInv /\ [Next]_vars => GatewayInv'
    BY GatewayStep
<1> QED
    BY <1>1, <1>2, PTL DEF Spec

\* process_incoming_batch stores a batch before it routes it and process_emergency
\* stores before it translates; since then no queue, worker, cache entry or batch has
\* held anything else, so what goes up is stored, hits included.
THEOREM GatewayStoredBeforeUplink == Spec => []StoredBeforeUplink
<1>1. GatewayInv => StoredBeforeUplink
    BY DEF GatewayInv, HistoryInv, Upload, StoredBeforeUplink
<1> QED
    BY <1>1, GatewayInvariant, PTL

\* Neither an emergency message nor the cached translation of one is in a batcher:
\* send() keeps them out of the first, and the second is only given fresh
\* translations of what came through the first.
THEOREM GatewayEmergencyNeverBatched == Spec => []EmergencyNeverBatched
<1>1. GatewayInv => EmergencyNeverBatched
    <2> SUFFICES ASSUME GatewayInv PROVE EmergencyNeverBatched
        OBVIOUS
    <2>1. ASSUME NEW S, NEW s \in Seq(S) PROVE Range(s) \subseteq S
        <3>1. \A i \in DOMAIN s : s[i] \in S
            BY <2>1, LenProperties, ElementOfSeq
        <3> QED
            BY <3>1 DEF Range
    <2>2. Range(inbox) \subseteq Normal
        BY <2>1 DEF GatewayInv, QueuesInv
    <2>3. Range(outbox) \subseteq SafeItem
        BY <2>1 DEF GatewayInv, QueuesInv
    <2>4. ASSUME NEW b \in Range(tx_batches) PROVE Range(b) \subseteq SafeItem
        <3>1. b \in Seq(SafeItem)
            BY <2>1 DEF GatewayInv, QueuesInv
        <3> QED
            BY <2>1, <3>1
    <2>5. \A it \in SafeItem : {it.req, it.as} \cap Emergency = {}
        BY DEF SafeItem, Safe
    <2>6. \A u \in uplinked : u.req \in Emergency => u.via = "single"
        BY DEF GatewayInv, HistoryInv, Upload
    <2> QED
        BY <2>2, <2>3, <2>4, <2>5, <2>6 DEF EmergencyNeverBatched, Normal
<1> QED
    BY <1>1, GatewayInvariant, PTL

\* Every path on which a message is dropped after routing (translation failed, queue
\* full, backpressure, request rejected) counts an error; only a full spread shard
\* does not.
THEOREM GatewayDropsAreCounted == Spec => []DropsAreCounted
<1>1. GatewayInv => DropsAreCounted
    BY DEF GatewayInv, HistoryInv, CountInv
<1> QED
    BY <1>1, GatewayInvariant, PTL
=============================================================================
