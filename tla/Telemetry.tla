----------------------------- MODULE Telemetry -----------------------------
(***************************************************************************)
(* The telemetry path from a sensor to the collector: spans are bundled    *)
(* (TelemetryBundle), the encoded bundles cross a link, and the collector  *)
(* decodes, converts and records them (BitemporalReconciler).  The link is *)
(* not in the code: it may lose, repeat and reorder bundles.  A client may *)
(* call the methods of a bundle in any order, and encode it more than      *)
(* once.                                                                   *)
(***************************************************************************)
EXTENDS Integers, Sequences, SequencesExt, FiniteSetsExt

CONSTANTS CompactSpans, Entities, Byte, Times,
          Compressions,                                 \* some of None, Zstd, Gzip
          MaxBundles, MaxEncoded, MaxDeliveries, MaxCorrections     \* bounds

VARIABLES bundle,
          plain, settled,   \* history: with_compression() was never called on the bundle;
                            \* nothing was called on it since the last compress()
          made,             \* history: the spans added so far, each once
          link,             \* encoded bundles, with what the bundle held (history)
          records,
          delivered,        \* history: spans recorded since the last clear()
          deliveries, corrections

vars == <<bundle, plain, settled, made, link, records, delivered, deliveries, corrections>>
collector == <<records, delivered, deliveries, corrections>>

Bundle == INSTANCE TelemetryBundle
Reconciler == INSTANCE BitemporalReconciler

Init ==
    /\ bundle = Bundle!Empty(1) /\ plain = TRUE /\ settled = FALSE /\ made = {} /\ link = {}
    /\ Reconciler!RecordsInit /\ delivered = {} /\ deliveries = 0 /\ corrections = 0

AddSpan(s) ==
    /\ s \notin made
    /\ made' = made \cup {s}
    /\ bundle' = Bundle!add_span(bundle, s)
    /\ settled' = FALSE
    /\ UNCHANGED <<plain, link, collector>>

WithCompression(c) ==
    /\ bundle' = Bundle!with_compression(bundle, c)
    /\ plain' = FALSE /\ settled' = FALSE
    /\ UNCHANGED <<made, link, collector>>

Compress ==
    /\ bundle' = Bundle!compress(bundle)
    /\ settled' = TRUE
    /\ UNCHANGED <<plain, made, link, collector>>

Encode ==
    /\ Cardinality(link) < MaxEncoded
    /\ link' = link \cup {[msg |-> Bundle!encode(bundle), held |-> bundle.spans,
                           complete |-> plain \/ settled]}
    /\ UNCHANGED <<bundle, plain, settled, made, collector>>

NewBundle ==
    /\ bundle.sequence_number < MaxBundles
    /\ bundle' = Bundle!Empty(bundle.sequence_number + 1)
    /\ plain' = TRUE /\ settled' = FALSE
    /\ UNCHANGED <<made, link, collector>>

\* from_bundle and ingest for every span; a bundle that does not decode is dropped.
Deliver(p) ==
    /\ deliveries < MaxDeliveries
    /\ deliveries' = deliveries + 1
    /\ LET spans == Bundle!decode(p.msg).spans
       IN  /\ records' = FoldLeft(LAMBDA rs, s : Reconciler!ingest(rs, Reconciler!from_compact(s)),
                                  records, spans)
           /\ delivered' = delivered \cup ToSet(spans)
    /\ UNCHANGED <<bundle, plain, settled, made, link, corrections>>

Correct(span, t) ==
    /\ corrections < MaxCorrections
    /\ corrections' = corrections + 1
    /\ Reconciler!retroactive_correction(span, t)
    /\ UNCHANGED <<bundle, plain, settled, made, link, delivered, deliveries>>

Clear ==
    /\ Reconciler!clear
    /\ delivered' = {}
    /\ UNCHANGED <<bundle, plain, settled, made, link, deliveries, corrections>>

Next ==
    \/ \E s \in CompactSpans : AddSpan(s)
    \/ \E c \in Compressions : WithCompression(c)
    \/ Compress \/ Encode \/ NewBundle
    \/ \E p \in link : Deliver(p)
    \/ \E r \in Reconciler!AllRecords, t \in Times : Correct(Reconciler!At(r).span, t)
    \/ Clear
----------------------------------------------------------------------------
Fits(s) == s.name_len < Byte

\* Nothing arrives that was not in the bundle, and in the order of the bundle; and when
\* compress() was the last call before encode(), or no compression was ever asked for,
\* everything arrives, provided every name fits its length byte (otel_bundle.rs): a
\* second compress() takes in the spans that were added after the first.
SpansArrive ==
    \A p \in link :
        LET d == Bundle!decode(p.msg)
        IN  /\ IsPrefix(d.spans, p.held)
            /\ p.complete /\ (\A i \in DOMAIN p.held : Fits(p.held[i])) => d.ok /\ d.spans = p.held

\* The collector keeps the times the sensor gave a span: what the reconciler reads back
\* from the attributes (extract_t_event, extract_t_system) is right even if the span has
\* an attribute of its own with one of those names, through losses, repeats and
\* reordering; and to_json exports the same times unless it has.
TimesArrive ==
    /\ \A s \in delivered :
         LET o == Reconciler!from_compact(s)
         IN  /\ s \in made
             /\ \E i \in DOMAIN records[s.entity] :
                  LET r == records[s.entity][i]
                  IN  r.span = o /\ r.t_event = s.t_event /\ r.t_system = s.t_system
             /\ (\A i \in DOMAIN s.attributes : s.attributes[i][1] # "t_event")
                  => Reconciler!JsonAttribute(o, "t_event") = s.t_event
    /\ \A t \in Times :
         LET stats == Reconciler!spread_stats(0, t)
         IN  stats.positive + stats.negative + stats.zero = stats.total

\* What the collector has is what the sensor made: the spans of every bundle, in order
\* and complete (SpansArrive), with the sensor's own times (TimesArrive), whatever the
\* order of the calls that built the bundle and however it was delivered.
BundlesArriveWhole == SpansArrive /\ TimesArrive

\* What the system believed at t does not depend on the order in which bundles arrived,
\* on repeats or on corrections: for every entity it is a span with the largest t_system
\* up to t among the spans recorded (system_belief_at, otel_reconciler.rs), and no other.
BeliefIsLatest ==
    \A t \in Times :
        LET belief == Reconciler!system_belief_at(t)
        IN  /\ belief \subseteq Reconciler!query_transaction_time(0, t)
            /\ \A e \in Entities :
                 LET known == {s \in delivered : s.entity = e /\ s.t_system <= t}
                     last == {s \in known : \A u \in known : u.t_system <= s.t_system}
                     of_e == {b \in belief : b.entity = e}
                 IN  IF known = {} THEN of_e = {}
                     ELSE \E s \in last : of_e = {Reconciler!from_compact(s)}
=============================================================================
