-------------------------- MODULE BiTemporalStore --------------------------
(***************************************************************************)
(* The bi-temporal message store of src/src/bitemporal.rs: a bounded queue *)
(* behind one RwLock, so that every method is one step, and the queries    *)
(* over it.  A message is a record with at least protocol, t_event and     *)
(* t_system; times are milliseconds of the same clock.                     *)
(***************************************************************************)
EXTENDS Integers, Sequences, SequencesExt

CONSTANT max_messages

VARIABLE messages

StoreInit == messages = <<>>

\* pop_front of an empty queue does nothing: a store for 0 messages keeps one.
PushBack(q, m) ==
    Append(IF Len(q) >= max_messages /\ q # <<>> THEN Tail(q) ELSE q, m)

\* A bug to compare with: the room for a batch is made once, before its first message.
EvictOnce(batch) ==
    messages' = (IF Len(messages) >= max_messages THEN Tail(messages) ELSE messages) \o batch

store(m) == messages' = PushBack(messages, m)
store_batch(batch) == messages' = FoldLeft(PushBack, messages, batch)

spread_ms(m) == m.t_system - m.t_event
Abs(x) == IF x < 0 THEN -x ELSE x

(***************************************************************************)
(* Queries.  protocols is the protocol filter (every protocol if there is  *)
(* none), max_spread the spread filter (at least every spread if none).    *)
(***************************************************************************)
Query(time, start_ms, end_ms, protocols, max_spread) ==
    [time |-> time, start_ms |-> start_ms, end_ms |-> end_ms,
     protocols |-> protocols, max_spread |-> max_spread]

matches(q, m) ==
    /\ (IF q.time = "ValidTime" THEN m.t_event ELSE m.t_system) \in q.start_ms..q.end_ms
    /\ m.protocol \in q.protocols
    /\ Abs(spread_ms(m)) <= q.max_spread

query(q) == SelectSeq(messages, LAMBDA m : matches(q, m))

system_belief_at(t) == SelectSeq(messages, LAMBDA m : m.t_system <= t)
actual_state_at(t) == SelectSeq(messages, LAMBDA m : m.t_event <= t)

Sum(s) == FoldLeft(LAMBDA a, b : a + b, 0, s)
\* An f64 cast to i64, and integer division in Rust, drop the fraction.
Truncate(a, b) == IF a >= 0 THEN a \div b ELSE -((-a) \div b)

spread_stats(start_ms, end_ms) ==
    LET relevant == SelectSeq(messages, LAMBDA m : m.t_system \in start_ms..end_ms)
        spreads == [i \in DOMAIN relevant |-> spread_ms(relevant[i])]
        all == {spreads[i] : i \in DOMAIN spreads}
    IN  IF relevant = <<>>
        THEN [message_count |-> 0, avg |-> 0, min |-> 0, max |-> 0, total |-> 0]
        ELSE [message_count |-> Len(spreads),
              avg |-> Truncate(Sum(spreads), Len(spreads)),
              min |-> CHOOSE s \in all : \A t \in all : s <= t,
              max |-> CHOOSE s \in all : \A t \in all : s >= t,
              total |-> Sum(spreads)]
=============================================================================
