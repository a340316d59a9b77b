------------------------------ MODULE Gateway ------------------------------
(***************************************************************************)
(* The message flow of src/src/gateway.rs: send(), the consumer of the     *)
(* batcher, the shard workers, the spread drainer, the consumer of the     *)
(* transmission batcher, and the caches and queues between them.  A        *)
(* handler is split where it awaits and where it reads shared state.       *)
(*                                                                         *)
(* The components are used by what their own modules show: the batchers    *)
(* are two instances of Coalescer, the cache returns what was last set for *)
(* a key or nothing, call() of the breaker fails only once there has been  *)
(* an outage.  The clock reconciler has no offsets (nothing in the gateway *)
(* registers one), so reconcile() leaves t_event alone.                    *)
(*                                                                         *)
(* A translated message is [req |-> m, as |-> n]: sent for m, with the     *)
(* data, timestamps and priority of the translation of n.                  *)
(***************************************************************************)
EXTENDS Integers, Sequences, SequencesExt, FiniteSets, FiniteSetsExt

CONSTANTS Messages,          \* positive numbers; send() is called once for each
          Emergency, Iridium,
          Late,              \* spread_ms above the base threshold of the protocol
          Invalid,           \* translate_sync fails
          payload,           \* payload[m]: the bytes of m
          Shards,            \* regular shards, 1..n
          shard_size, backpressure_limit,
          max_batch_size, tx_batch_size, worker_batch_size,
          duplicates,        \* the telemetry rule of Iridium, 60 in the code
          MaxOutages         \* bound: how often the link goes down

ASSUME GatewayAssumption ==
    /\ Messages \subseteq Nat \ {0}
    /\ Emergency \cup Iridium \cup Late \cup Invalid \subseteq Messages
    /\ {shard_size, max_batch_size, tx_batch_size, worker_batch_size, duplicates}
           \subseteq Nat \ {0}
    /\ \A m, n \in Messages :     \* whether it fails depends on the protocol and the bytes
           /\ payload[m] = payload[n] /\ (m \in Iridium <=> n \in Iridium)
           => (m \in Invalid <=> n \in Invalid)

None == 0
Spread == 0                          \* the spread shard and its drainer
Tasks == Shards \cup {Spread}

VARIABLES sent,                    \* messages given to send()
          emergency,               \* emergency[m]: where process_emergency is
          inbox, batches,          \* the AsyncBatcher
          routing, burst,          \* process_incoming_batch; its spread messages
          queue,                   \* queue[t]: the shard that task t reads
          total_regular_messages, round_robin, deadzone,
          work,                    \* work[t]: the batch task t is working on
          cache, stored,           \* the cache; messages in the bi-temporal store
          outbox, tx_batches,      \* the TransmissionBatcher
          link, outages,           \* whether requests get through
          uplinked, copies, up, down, lost, errors   \* history

senders == <<sent, emergency>>
shards == <<queue, total_regular_messages, round_robin, deadzone>>
history == <<uplinked, copies, up, down, lost, errors>>
vars == <<senders, inbox, batches, routing, burst, shards, work, cache, stored,
          outbox, tx_batches, link, outages, history>>

Incoming == INSTANCE Coalescer WITH pending <- inbox, out <- batches, listening <- TRUE
Outgoing == INSTANCE Coalescer WITH pending <- outbox, out <- tx_batches,
                                    listening <- TRUE, max_batch_size <- tx_batch_size,
                                    Messages <- [req : Messages, as : Messages]

hash_data(bytes) == FoldLeft(LAMBDA h, b : h * 33 + b, 5381, bytes)
Key(m) == <<m \in Iridium, hash_data(payload[m])>>
Keys == {Key(m) : m \in Messages}

Idle == [stage |-> "idle", items |-> <<>>]
Translated(ms) == [i \in DOMAIN ms |-> [req |-> ms[i], as |-> ms[i]]]
Times(s, m) == Cardinality({i \in DOMAIN s : s[i] = m})
TimesFor(items, m) == Cardinality({i \in DOMAIN items : items[i].req = m})

\* The sequence (the only member of the set) with n[m] copies of every m of ms, in the
\* order of ms; copy j of position i is <<i, j>>.
Copied(ms, n) ==
    LET P == {p \in (DOMAIN ms) \X (1..duplicates) : p[2] <= n[ms[p[1]]]}
        Before(p, q) == p[1] < q[1] \/ (p[1] = q[1] /\ p[2] < q[2])
    IN  {[a \in DOMAIN f |-> ms[f[a][1]]] :
           f \in {g \in [1..Cardinality(P) -> P] :
                    \A a \in 2..Cardinality(P) : Before(g[a - 1], g[a])}}

\* cache.set and set_batch: a later translation of the same key replaces an earlier one.
CacheSet(items) ==
    cache' = [k \in Keys |->
                LET hits == {i \in DOMAIN items : Key(items[i].req) = k}
                IN  IF hits = {} THEN cache[k] ELSE items[Max(hits)].as]

\* Faulty variant of Uplink: a rejected request is not counted.
UplinkUncounted(items, via) ==
    \/ /\ link
       /\ uplinked' = uplinked \cup {[req |-> it.req, as |-> it.as, via |-> via] : it \in Range(items)}
       /\ up' = [m \in Messages |-> up[m] + TimesFor(items, m)]
       /\ UNCHANGED <<down, errors>>
    \/ /\ outages > 0
       /\ down' = [m \in Messages |-> down[m] + TimesFor(items, m)]
       /\ UNCHANGED <<uplinked, up, errors>>

\* One request to ASTS for the items, through the circuit breaker.
Uplink(items, via) ==
    \/ /\ link
       /\ uplinked' = uplinked \cup {[req |-> it.req, as |-> it.as, via |-> via] : it \in Range(items)}
       /\ up' = [m \in Messages |-> up[m] + TimesFor(items, m)]
       /\ UNCHANGED <<down, errors>>
    \/ /\ outages > 0
       /\ down' = [m \in Messages |-> down[m] + TimesFor(items, m)]
       /\ errors' = errors + 1
       /\ UNCHANGED <<uplinked, up>>

Init ==
    /\ sent = {} /\ emergency = [m \in Emergency |-> "none"]
    /\ inbox = <<>> /\ batches = <<>> /\ routing = Idle /\ burst = <<>>
    /\ queue = [t \in Tasks |-> <<>>]
    /\ total_regular_messages = 0 /\ round_robin = 0 /\ deadzone = <<>>
    /\ work = [t \in Tasks |-> Idle]
    /\ cache = [k \in Keys |-> None] /\ stored = {}
    /\ outbox = <<>> /\ tx_batches = <<>>
    /\ link = TRUE /\ outages = 0
    /\ uplinked = {} /\ copies = [m \in Messages |-> 0]
    /\ up = [m \in Messages |-> 0] /\ down = [m \in Messages |-> 0]
    /\ lost = {} /\ errors = 0

(* send and process_emergency *)

\* Faulty variant of SendNormal: the fast path is not taken.
SendAny(m) ==
    /\ m \notin sent
    /\ sent' = sent \cup {m}
    /\ Incoming!Accept(m)
    /\ UNCHANGED <<emergency, routing, burst, shards, work, cache, stored, outbox, tx_batches,
                   link, outages, history>>

SendNormal(m) ==
    /\ m \notin sent \cup Emergency
    /\ sent' = sent \cup {m}
    /\ Incoming!Accept(m)
    /\ UNCHANGED <<emergency, routing, burst, shards, work, cache, stored, outbox, tx_batches,
                   link, outages, history>>

SendEmergency(m) ==
    /\ m \notin sent /\ emergency[m] = "none"
    /\ sent' = sent \cup {m}
    /\ stored' = stored \cup {m}
    /\ copies' = [copies EXCEPT ![m] = 1]
    /\ emergency' = [emergency EXCEPT ![m] = "stored"]
    /\ UNCHANGED <<inbox, batches, routing, burst, shards, work, cache, outbox, tx_batches,
                   link, outages, uplinked, up, down, lost, errors>>

\* push_deadzone, whose result is ignored, then the translation and the cache.
EmergencyTranslate(m) ==
    /\ emergency[m] = "stored"
    /\ deadzone' = IF Len(deadzone) < shard_size THEN Append(deadzone, m) ELSE deadzone
    /\ \/ /\ m \notin Invalid
          /\ CacheSet(Translated(<<m>>))
          /\ emergency' = [emergency EXCEPT ![m] = "uplink"]
          /\ UNCHANGED <<down, errors>>
       \/ /\ m \in Invalid
          /\ emergency' = [emergency EXCEPT ![m] = "done"]
          /\ down' = [down EXCEPT ![m] = @ + 1]
          /\ errors' = errors + 1
          /\ UNCHANGED cache
    /\ UNCHANGED <<sent, inbox, batches, routing, burst, queue, total_regular_messages,
                   round_robin, work, stored, outbox, tx_batches, link, outages,
                   uplinked, copies, up, lost>>

EmergencyUplink(m) ==
    /\ emergency[m] = "uplink"
    /\ Uplink(Translated(<<m>>), "single")
    /\ emergency' = [emergency EXCEPT ![m] = "done"]
    /\ UNCHANGED <<sent, inbox, batches, routing, burst, shards, work, cache, stored,
                   outbox, tx_batches, link, outages, copies, lost>>

(* process_incoming_batch, run by the consumer of the AsyncBatcher *)

BatchIncoming ==
    /\ Incoming!EmitSome
    /\ UNCHANGED <<senders, routing, burst, shards, work, cache, stored, outbox,
                   tx_batches, link, outages, history>>

TakeIncoming ==
    /\ routing.stage = "idle"
    /\ Incoming!Take
    /\ routing' = [stage |-> "store", items |-> Head(batches)]
    /\ UNCHANGED <<senders, burst, shards, work, cache, stored, outbox, tx_batches,
                   link, outages, history>>

\* Faulty variant of StoreBatch: only the first message is stored.
StoreFirst ==
    /\ routing.stage = "store"
    /\ stored' = stored \cup {Head(routing.items)}
    /\ routing' = [routing EXCEPT !.stage = "partition"]
    /\ UNCHANGED <<senders, inbox, batches, burst, shards, work, cache, outbox,
                   tx_batches, link, outages, history>>

StoreBatch ==
    /\ routing.stage = "store"
    /\ stored' = stored \cup Range(routing.items)
    /\ routing' = [routing EXCEPT !.stage = "partition"]
    /\ UNCHANGED <<senders, inbox, batches, burst, shards, work, cache, outbox,
                   tx_batches, link, outages, history>>

\* How often the cadence rule passes on m: "telemetry" from Iridium is duplicated.
Repeats(m) == IF m \in Iridium THEN duplicates ELSE 1

\* The adaptive threshold is never below the base, so only late messages can exceed
\* it; which of them do depends on the spreads seen before.
Partition ==
    /\ routing.stage = "partition"
    /\ \E high \in SUBSET (Range(routing.items) \cap Late) :
           /\ \E spread \in Copied(routing.items, [m \in Messages |-> IF m \in high THEN 1 ELSE 0]) :
                  burst' = spread
           /\ \E normal \in Copied(routing.items,
                                   [m \in Messages |-> IF m \in high THEN 0 ELSE Repeats(m)]) :
                  routing' = [stage |-> "spread", items |-> normal]
           /\ copies' = [m \in Messages |->
                           IF m \in high THEN 1
                           ELSE IF m \in Range(routing.items) THEN Repeats(m) ELSE copies[m]]
    /\ UNCHANGED <<senders, inbox, batches, shards, work, cache, stored, outbox,
                   tx_batches, link, outages, uplinked, up, down, lost, errors>>

\* push_spread; a message that finds the shard full is dropped with a warning.
PushSpread ==
    /\ routing.stage = "spread" /\ burst # <<>>
    /\ burst' = Tail(burst)
    /\ \/ /\ Len(queue[Spread]) < shard_size
          /\ queue' = [queue EXCEPT ![Spread] = Append(@, Head(burst))]
          /\ UNCHANGED lost
       \/ /\ Len(queue[Spread]) >= shard_size
          /\ lost' = lost \cup {Head(burst)}
          /\ UNCHANGED queue
    /\ UNCHANGED <<senders, inbox, batches, routing, total_regular_messages, round_robin,
                   deadzone, work, cache, stored, outbox, tx_batches, link, outages,
                   uplinked, copies, up, down, errors>>

\* get_batch: one read of the cache for the whole batch.
LookupBatch ==
    /\ routing.stage = "spread" /\ burst = <<>>
    /\ routing' = IF routing.items = <<>> THEN Idle
                  ELSE [stage |-> "emit",
                        items |-> [i \in DOMAIN routing.items |->
                                     [req |-> routing.items[i], as |-> cache[Key(routing.items[i])]]]]
    /\ UNCHANGED <<senders, inbox, batches, burst, shards, work, cache, stored, outbox,
                   tx_batches, link, outages, history>>

Rest == IF Len(routing.items) = 1 THEN Idle
        ELSE [routing EXCEPT !.items = Tail(@)]

\* A cache hit is sent on its own, as the translation that was cached.
EmitHit ==
    /\ routing.stage = "emit" /\ Head(routing.items).as # None
    /\ Uplink(<<Head(routing.items)>>, "single")
    /\ routing' = Rest
    /\ UNCHANGED <<senders, inbox, batches, burst, shards, work, cache, stored, outbox,
                   tx_batches, link, outages, copies, lost>>

\* Faulty variant of EmitMiss: waiting instead of giving up.
EmitMissWaiting ==
    LET m == Head(routing.items).req
        id == 1 + round_robin
    IN  /\ routing.stage = "emit" /\ Head(routing.items).as = None
        /\ total_regular_messages < backpressure_limit /\ Len(queue[id]) < shard_size
        /\ routing' = Rest
        /\ round_robin' = (round_robin + 1) % Cardinality(Shards)
        /\ queue' = [queue EXCEPT ![id] = Append(@, m)]
        /\ total_regular_messages' = total_regular_messages + 1
        /\ UNCHANGED <<senders, inbox, batches, burst, deadzone, work, cache, stored, outbox,
                       tx_batches, link, outages, uplinked, copies, up, down, lost, errors>>

\* A cache miss is pushed to the next shard.
EmitMiss ==
    LET m == Head(routing.items).req
        id == 1 + round_robin
        open == total_regular_messages < backpressure_limit
    IN  /\ routing.stage = "emit" /\ Head(routing.items).as = None
        /\ routing' = Rest
        /\ round_robin' = IF open THEN (round_robin + 1) % Cardinality(Shards) ELSE round_robin
        /\ \/ /\ open /\ Len(queue[id]) < shard_size
              /\ queue' = [queue EXCEPT ![id] = Append(@, m)]
              /\ total_regular_messages' = total_regular_messages + 1
              /\ UNCHANGED <<down, errors>>
           \/ /\ ~open \/ Len(queue[id]) >= shard_size
              /\ down' = [down EXCEPT ![m] = @ + 1]
              /\ errors' = errors + 1
              /\ UNCHANGED <<queue, total_regular_messages>>
        /\ UNCHANGED <<senders, inbox, batches, burst, deadzone, work, cache, stored,
                       outbox, tx_batches, link, outages, uplinked, copies, up, lost>>

(* process_translated_batch and drain_spread_shard_once *)

\* Task t takes the first k messages of its shard and translates them.
TakeWork(t, k) ==
    LET ms == SubSeq(queue[t], 1, k)
    IN  /\ work[t].stage = "idle" /\ k \in 1..Len(queue[t])
        /\ queue' = [queue EXCEPT ![t] = SubSeq(@, k + 1, Len(@))]
        /\ \E valid \in Copied(ms, [m \in Messages |-> IF m \in Invalid THEN 0 ELSE 1]) :
               work' = [work EXCEPT ![t] = IF valid = <<>> THEN Idle
                                           ELSE [stage |-> "cache", items |-> Translated(valid)]]
        /\ down' = [m \in Messages |-> down[m] + IF m \in Invalid THEN Times(ms, m) ELSE 0]
        /\ errors' = errors + Cardinality({i \in DOMAIN ms : ms[i] \in Invalid})
        /\ UNCHANGED <<senders, inbox, batches, routing, burst, total_regular_messages,
                       round_robin, deadzone, cache, stored, outbox, tx_batches,
                       link, outages, uplinked, copies, up, lost>>

\* A shard worker: the first message, and more while there are more.
WorkerTake(t) == t \in Shards /\ \E k \in 1..worker_batch_size : TakeWork(t, k)

\* The spread drainer takes all there is.
DrainSpread == TakeWork(Spread, Len(queue[Spread]))

\* set_batch, and a snapshot of the batch.
CacheWork(t) ==
    /\ work[t].stage = "cache"
    /\ CacheSet(work[t].items)
    /\ work' = [work EXCEPT ![t].stage = "enqueue"]
    /\ UNCHANGED <<senders, inbox, batches, routing, burst, shards, stored, outbox,
                   tx_batches, link, outages, history>>

\* Faulty variant of EnqueueWork: only the first of the batch is enqueued.
EnqueueFirst(t) ==
    /\ work[t].stage = "enqueue"
    /\ Outgoing!Accept(Head(work[t].items))
    /\ work' = [work EXCEPT ![t] = Idle]
    /\ UNCHANGED <<senders, inbox, batches, routing, burst, shards, cache, stored,
                   link, outages, history>>

EnqueueWork(t) ==
    /\ work[t].stage = "enqueue"
    /\ Outgoing!Accept(Head(work[t].items))
    /\ work' = [work EXCEPT ![t] = IF Len(@.items) = 1 THEN Idle
                                   ELSE [stage |-> "enqueue", items |-> Tail(@.items)]]
    /\ UNCHANGED <<senders, inbox, batches, routing, burst, shards, cache, stored,
                   link, outages, history>>

(* send_batch_to_asts, run by the consumer of the TransmissionBatcher *)

BatchOutgoing ==
    /\ Outgoing!EmitSome
    /\ UNCHANGED <<senders, inbox, batches, routing, burst, shards, work, cache, stored,
                   link, outages, history>>

SendBatchToAsts ==
    /\ Outgoing!Take
    /\ Uplink(Head(tx_batches), "batch")
    /\ UNCHANGED <<senders, inbox, batches, routing, burst, shards, work, cache, stored,
                   link, outages, copies, lost>>

(* The environment *)

\* An entry expires or is evicted.
CacheForget(k) ==
    /\ cache[k] # None
    /\ cache' = [cache EXCEPT ![k] = None]
    /\ UNCHANGED <<senders, inbox, batches, routing, burst, shards, work, stored, outbox,
                   tx_batches, link, outages, history>>

LinkDown ==
    /\ link /\ outages < MaxOutages
    /\ link' = FALSE /\ outages' = outages + 1
    /\ UNCHANGED <<senders, inbox, batches, routing, burst, shards, work, cache, stored,
                   outbox, tx_batches, history>>

LinkUp ==
    /\ ~link
    /\ link' = TRUE
    /\ UNCHANGED <<senders, inbox, batches, routing, burst, shards, work, cache, stored,
                   outbox, tx_batches, outages, history>>

EmergencyStep(m) == EmergencyTranslate(m) \/ EmergencyUplink(m)
RoutingStep == \/ TakeIncoming \/ StoreBatch \/ Partition \/ PushSpread
               \/ LookupBatch \/ EmitHit \/ EmitMiss
WorkStep(t) == WorkerTake(t) \/ (t = Spread /\ DrainSpread) \/ CacheWork(t) \/ EnqueueWork(t)

Next ==
    \/ \E m \in Messages : SendNormal(m)
    \/ \E m \in Emergency : SendEmergency(m) \/ EmergencyStep(m)
    \/ BatchIncoming \/ RoutingStep
    \/ \E t \in Tasks : WorkStep(t)
    \/ BatchOutgoing \/ SendBatchToAsts
    \/ \E k \in Keys : CacheForget(k)
    \/ LinkDown \/ LinkUp

Spec == Init /\ [][Next]_vars

\* Every task that can go on does, the batchers keep emitting, outages end.
FairSpec ==
    /\ Spec
    /\ \A m \in Emergency : WF_vars(EmergencyStep(m))
    /\ WF_vars(BatchIncoming) /\ WF_vars(RoutingStep)
    /\ \A t \in Tasks : WF_vars(WorkStep(t))
    /\ WF_vars(BatchOutgoing) /\ WF_vars(SendBatchToAsts)
    /\ WF_vars(LinkUp)
----------------------------------------------------------------------------
(* Properties *)

\* Copies of m before and after the batch of m is routed.
Unrouted(m) ==
    Times(inbox, m) + MapThenSumSet(LAMBDA i : Times(batches[i], m), DOMAIN batches)
    + IF routing.stage \in {"store", "partition"} THEN Times(routing.items, m) ELSE 0
InFlight(m) ==
    Times(burst, m)
    + (IF routing.stage = "spread" THEN Times(routing.items, m) ELSE 0)
    + (IF routing.stage = "emit" THEN TimesFor(routing.items, m) ELSE 0)
    + MapThenSumSet(LAMBDA t : Times(queue[t], m) + TimesFor(work[t].items, m), Tasks)
    + TimesFor(outbox, m)
    + MapThenSumSet(LAMBDA i : TimesFor(tx_batches[i], m), DOMAIN tx_batches)
    + (IF m \in Emergency /\ emergency[m] \in {"stored", "uplink"} THEN 1 ELSE 0)
Finished(m) == up[m] + down[m] + IF m \in lost THEN 1 ELSE 0

\* No copy of a message is lost or made on the way: each one that routing created
\* is in exactly one queue or task, or was sent to ASTS once, or was dropped at a
\* place that the code logs.
EveryCopyAccounted ==
    \A m \in Messages :
        /\ copies[m] = InFlight(m) + Finished(m)
        /\ (IF m \in sent THEN 1 ELSE 0) = Unrouted(m) + (IF copies[m] > 0 THEN 1 ELSE 0)

\* Nothing reaches ASTS before it is in the bi-temporal store: the audit log
\* accounts for every uplink, also for uplinks of cached translations.
StoredBeforeUplink == \A u \in uplinked : {u.req, u.as} \subseteq stored

\* transmission_batcher.rs:25, "Emergency messages never reach this layer": neither an
\* emergency message nor the cached translation of one waits in a batcher, and an
\* emergency message goes up in a request of its own.
EmergencyNeverBatched ==
    /\ Emergency \cap Range(inbox) = {}
    /\ \A it \in Range(outbox) \cup UNION {Range(b) : b \in Range(tx_batches)} :
           {it.req, it.as} \cap Emergency = {}
    /\ \A u \in uplinked : u.req \in Emergency => u.via = "single"

\* A message that was dropped shows in the error counter, unless the spread shard
\* was full.
DropsAreCounted == errors = 0 => \A m \in Messages : down[m] = 0

\* Again and again every message given to send() so far is finished, in all its
\* copies: no task waits for another for ever, whatever the link does.
EveryMessageFinishes ==
    []<>(\A m \in sent : copies[m] > 0 /\ copies[m] = Finished(m))

=============================================================================
