------------------------------- MODULE Ingest -------------------------------
(***************************************************************************)
(* The first three stages of Gateway::process_incoming_batch and the store *)
(* of process_emergency (src/src/gateway.rs): one consumer task handles    *)
(* the batches of normal messages one after another; an emergency runs on  *)
(* the task of its sender.  They meet at the bi-temporal store.  Nothing   *)
(* registers a clock offset with the gateway's reconciler, so reconcile()  *)
(* finds none and t_event stays.                                           *)
(***************************************************************************)
EXTENDS Integers, Sequences, FiniteSetsExt, SequencesExt

CONSTANTS Protocols,
          spread_burst_threshold_ms,   \* a function on Protocols
          Stamps,                      \* pairs <<t_event, t_system>> messages come with
          max_messages, max_batch_size,
          MaxArrivals, MaxEmergencies  \* bounds: messages that arrive, and how many
                                       \* of them are emergencies

VARIABLES messages,            \* the bi-temporal store
          ewma_state,
          stage, batch,        \* the consumer task and the batch in its hands
          emergencies,         \* emergency messages whose store() is still to come
          arrived, urgent,     \* how many messages, and emergencies, there have been
          stored,              \* history: every message stored, in lock order
          routes               \* history: where each normal message went

vars == <<messages, ewma_state, stage, batch, emergencies, arrived, urgent, stored, routes>>

Store == INSTANCE BiTemporalStore
Ewma == INSTANCE SpreadEwma
Cadence == INSTANCE CadenceTranslator WITH    \* only what its rules say is used here
             Rules <- {}, Unit <- 0, MaxRules <- 0, rules <- <<>>, rate_limiters <- <<>>,
             action <- "none", asked <- <<>>, quiet <- <<>>

Message(id, protocol, stamp) ==
    [id |-> id, protocol |-> protocol, t_event |-> stamp[1], t_system |-> stamp[2]]

Arrivals(id) == {Message(id, p, st) : p \in Protocols, st \in Stamps}
\* Up to max_batch_size new messages, with the next free ids.
Batches ==
    UNION {{b \in [1..k -> UNION {Arrivals(arrived + i) : i \in 1..k}] :
              \A i \in 1..k : b[i].id = arrived + i} :
           k \in 1..max_batch_size \cap 1..(MaxArrivals - arrived)}

Init ==
    /\ Store!StoreInit
    /\ ewma_state = [p \in Protocols |-> Ewma!New]
    /\ stage = "idle" /\ batch = <<>> /\ emergencies = {}
    /\ arrived = 0 /\ urgent = 0
    /\ stored = <<>> /\ routes = <<>>

\* Stage 1, one lock for the batch: without offsets the messages stay as they are.
Reconcile(b) ==
    /\ stage = "idle"
    /\ stage' = "store" /\ batch' = b
    /\ arrived' = arrived + Len(b)
    /\ UNCHANGED <<messages, ewma_state, emergencies, urgent, stored, routes>>

\* Stage 2, one write lock for the batch.
StoreBatch ==
    /\ stage = "store"
    /\ Store!store_batch(batch)
    /\ stored' = stored \o batch
    /\ stage' = "partition"
    /\ UNCHANGED <<ewma_state, batch, emergencies, arrived, urgent, routes>>

\* A message that is not late: how many copies the cadence rules make of it.
Copies(m) ==
    LET rules == Cadence!default_iridium_to_asts_rules
        rule == rules[Cadence!Rule(rules, "telemetry", "IridiumSBD")]
    IN  IF m.protocol = "IridiumSBD" /\ rule.transformation = "Duplicate"
        THEN rule.arg ELSE 1

\* A bug to compare with: the threshold of the protocol alone decides.
RouteByBase(acc, m) ==
    LET e == Ewma!update(acc.ewma[m.protocol], Store!spread_ms(m))
        late == Store!spread_ms(m) > spread_burst_threshold_ms[m.protocol]
    IN  [ewma |-> [acc.ewma EXCEPT ![m.protocol] = e],
         routes |-> Append(acc.routes, [msg |-> m, to |-> IF late THEN "spread" ELSE "normal",
                                        copies |-> IF late THEN 1 ELSE Copies(m)])]

\* The loop body of stage 3: update the average with the message, then compare.
Route(acc, m) ==
    LET e == Ewma!update(acc.ewma[m.protocol], Store!spread_ms(m))
        late == Store!spread_ms(m) >
                  Ewma!adaptive_threshold_ms(e, spread_burst_threshold_ms[m.protocol])
    IN  [ewma |-> [acc.ewma EXCEPT ![m.protocol] = e],
         routes |-> Append(acc.routes, [msg |-> m, to |-> IF late THEN "spread" ELSE "normal",
                                        copies |-> IF late THEN 1 ELSE Copies(m)])]

\* Stage 3, with the locks of the averages and of the cadence translator.
Partition ==
    /\ stage = "partition"
    /\ LET acc == FoldLeft(Route, [ewma |-> ewma_state, routes |-> routes], batch)
       IN  ewma_state' = acc.ewma /\ routes' = acc.routes
    /\ stage' = "idle" /\ batch' = <<>>
    /\ UNCHANGED <<messages, emergencies, arrived, urgent, stored>>

\* process_emergency reconciles the message and waits for the lock of the store.
EmergencyArrives ==
    /\ arrived < MaxArrivals /\ urgent < MaxEmergencies
    /\ arrived' = arrived + 1 /\ urgent' = urgent + 1
    /\ \E m \in Arrivals(arrived + 1) : emergencies' = emergencies \cup {m}
    /\ UNCHANGED <<messages, ewma_state, stage, batch, stored, routes>>

StoreEmergency(m) ==
    /\ Store!store(m)
    /\ stored' = Append(stored, m)
    /\ emergencies' = emergencies \ {m}
    /\ UNCHANGED <<ewma_state, stage, batch, arrived, urgent, routes>>

Next ==
    \/ \E b \in Batches : Reconcile(b)
    \/ StoreBatch \/ Partition
    \/ EmergencyArrives
    \/ \E m \in emergencies : StoreEmergency(m)

Spec == Init /\ [][Next]_vars
----------------------------------------------------------------------------
\* spread_ms of the normal messages of protocol p among the first n that were routed.
Earlier(p, n) == {Store!spread_ms(routes[i].msg) : i \in {j \in 1..n : routes[j].msg.protocol = p}}

\* The adaptive threshold only picks outliers and does not miss a clear one
\* (EwmaSpreadState, gateway.rs).  A message goes to the spread shard only if its
\* spread is above the base of its protocol and above some earlier spread of it: a
\* steady delay, however long, is not a burst.  And after at least one on-time
\* message it does go there when its spread is above the base and more than five
\* times every earlier spread, none of them negative.
OutliersAreRouted ==
    \A n \in DOMAIN routes :
        LET m == routes[n].msg
            s == Store!spread_ms(m)
            before == Earlier(m.protocol, n - 1)
            above == s > spread_burst_threshold_ms[m.protocol]
        IN  /\ routes[n].to = "spread" => above /\ \E q \in before : q < s
            /\ above /\ before # {} /\ (\A q \in before : q >= 0 /\ s > 5 * q)
                 => routes[n].to = "spread"

Horizon == Max({st[1] : st \in Stamps} \cup {st[2] : st \in Stamps})
Instants == 0..Horizon
Recorded(time, lo, hi) == Store!query(Store!Query(time, lo, hi, Protocols, Horizon))

\* Whatever the order in which the consumer and the senders of emergencies get the
\* lock, the store holds the last max_messages messages in that order, also across a
\* batch that does not fit (store and store_batch, bitemporal.rs), and the three ways
\* to ask about a period of transaction time agree with each other: the query, the
\* belief and the statistics, whose truncated average lies between its extremes.
StoreHoldsLatest ==
    /\ messages = SubSeq(stored, Len(stored) - Len(messages) + 1, Len(stored))
    /\ Len(messages) = IF Len(stored) < max_messages THEN Len(stored) ELSE max_messages
    /\ \A lo, hi \in Instants :
         LET stats == Store!spread_stats(lo, hi)
         IN  /\ stats.message_count = Len(Recorded("TransactionTime", lo, hi))
             /\ stats.min <= stats.avg /\ stats.avg <= stats.max
    /\ \A t \in Instants :
         /\ Store!system_belief_at(t) = Recorded("TransactionTime", 0, t)
         /\ Store!actual_state_at(t) = Recorded("ValidTime", 0, t)
=============================================================================
