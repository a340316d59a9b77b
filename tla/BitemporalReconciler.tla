------------------------ MODULE BitemporalReconciler ------------------------
(***************************************************************************)
(* The collector side of the telemetry path: OtlpSpan                      *)
(* (src/src/otel_converter.rs) and BitemporalReconciler                    *)
(* (src/src/otel_reconciler.rs).  records holds, by entity, the sequence   *)
(* of records [t_event, t_system, span].  Queries over the map of entities *)
(* return their spans in no particular order: they are sets here.          *)
(***************************************************************************)
EXTENDS Integers, Sequences, FiniteSetsExt

CONSTANT Entities

VARIABLE records

RecordsInit == records = [e \in Entities |-> <<>>]

\* The attributes of a span: the fixed ones first, then its own.
from_compact(s) ==
    [entity |-> s.entity,
     attributes |-> <<<<"t_event", s.t_event>>, <<"t_system", s.t_system>>,
                      <<"spread_ms", s.t_system - s.t_event>>>> \o s.attributes]

Places(span, key) == {i \in DOMAIN span.attributes : span.attributes[i][1] = key}

extract(span, key) ==
    IF Places(span, key) = {} THEN 0 ELSE span.attributes[Min(Places(span, key))][2]

\* to_json puts the attributes in a map, one after another.
JsonAttribute(span, key) == span.attributes[Max(Places(span, key))][2]

Push(rs, span, t_event) ==
    [rs EXCEPT ![span.entity] =
       Append(@, [t_event |-> t_event, t_system |-> extract(span, "t_system"), span |-> span])]

ingest(rs, span) == Push(rs, span, extract(span, "t_event"))
retroactive_correction(span, new_t_event) == records' = Push(records, span, new_t_event)
clear == records' = [e \in Entities |-> <<>>]

AllRecords == UNION {{<<e, i>> : i \in DOMAIN records[e]} : e \in Entities}
At(p) == records[p[1]][p[2]]
Spans(P) == {At(p).span : p \in P}

query_valid_time(start_ms, end_ms) == Spans({p \in AllRecords : At(p).t_event \in start_ms..end_ms})
query_transaction_time(start_ms, end_ms) ==
    Spans({p \in AllRecords : At(p).t_system \in start_ms..end_ms})
actual_state_at(t) == Spans({p \in AllRecords : At(p).t_event = t})

\* A bug to compare with: the record that arrived last is the latest.
LastArrived(e, t) == Max({i \in DOMAIN records[e] : records[e][i].t_system <= t})

\* max_by_key: the last of the records with the largest t_system up to t.
Latest(e, t) ==
    LET known == {i \in DOMAIN records[e] : records[e][i].t_system <= t}
    IN  Max({i \in known : \A j \in known : records[e][j].t_system <= records[e][i].t_system})

Known(t) == {e \in Entities : \E i \in DOMAIN records[e] : records[e][i].t_system <= t}
system_belief_at(t) == {records[e][Latest(e, t)].span : e \in Known(t)}

spread_stats(start_ms, end_ms) ==
    LET P == {p \in AllRecords : At(p).t_system \in start_ms..end_ms}
        Spread(p) == At(p).t_system - At(p).t_event
    IN  [total |-> Cardinality(P),
         positive |-> Cardinality({p \in P : Spread(p) > 0}),
         negative |-> Cardinality({p \in P : Spread(p) < 0}),
         zero |-> Cardinality({p \in P : Spread(p) = 0})]

record_count == Cardinality(AllRecords)
=============================================================================
