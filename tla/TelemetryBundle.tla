-------------------------- MODULE TelemetryBundle --------------------------
(***************************************************************************)
(* The sensor side of the telemetry path: CompactSpan                      *)
(* (src/src/otel_compact_span.rs) and TelemetryBundle                      *)
(* (src/src/otel_bundle.rs).  A span is [entity, t_event, t_system,        *)
(* attributes, name_len]: entity stands for trace and span id, attributes  *)
(* is its sequence of <<key, value>> pairs, name_len the length of its     *)
(* name; the other fields are copied and no decision depends on them.  An  *)
(* encoded bundle is [sequence_number, tag, data]: tag is the compression  *)
(* type in its header, data.format how the bytes were really made.         *)
(***************************************************************************)
EXTENDS Integers, Sequences

CONSTANT Byte            \* 256: what a length byte is taken modulo

\* CompactSpan::new and its with_ methods
CompactSpan(entity, t_event, t_system, attributes, name_len) ==
    [entity |-> entity, t_event |-> t_event, t_system |-> t_system, attributes |-> attributes,
     name_len |-> name_len]

Empty(n) == [sequence_number |-> n, compression_type |-> "None", spans |-> <<>>,
             compressed_data |-> <<>>]       \* an Option: empty, or one element

add_span(b, s) == [b EXCEPT !.spans = Append(@, s)]
with_compression(b, c) == [b EXCEPT !.compression_type = c]

\* CompactSpan::encode writes the length of the name as one byte.
EncodeSpans(spans) == [i \in DOMAIN spans |-> [span |-> spans[i], len |-> spans[i].name_len % Byte]]

\* A bug to compare with: data that is there already is not made again.
CompressOnce(b) ==
    IF b.spans = <<>> \/ b.compressed_data # <<>> THEN b
    ELSE [b EXCEPT !.compressed_data =
            IF b.compression_type = "None" THEN <<>>
            ELSE <<[format |-> b.compression_type, spans |-> EncodeSpans(b.spans)]>>]

compress(b) ==
    IF b.spans = <<>> THEN b
    ELSE [b EXCEPT !.compressed_data =
            IF b.compression_type = "None" THEN <<>>
            ELSE <<[format |-> b.compression_type, spans |-> EncodeSpans(b.spans)]>>]

\* Compressed data is sent as it is, whatever has been added since.
encode(b) ==
    [sequence_number |-> b.sequence_number, tag |-> b.compression_type,
     data |-> IF b.compressed_data # <<>> THEN b.compressed_data[1]
              ELSE [format |-> "None", spans |-> EncodeSpans(b.spans)]]

\* CompactSpan::decode.  A span whose name length wrapped is read from inside the name;
\* the lengths found there (32 and more in printable text) run off the end.
Decodes(e) == e.len = e.span.name_len

\* decode(): the spans, or an error.  The tag says how to read the data, and the wrong
\* reader fails: the first bytes of zstd, of gzip and of a span are never taken for each
\* other.  One span that does not decode fails the whole bundle.
decode(m) ==
    LET ok == /\ m.tag = m.data.format \/ m.data.spans = <<>>
              /\ \A i \in DOMAIN m.data.spans : Decodes(m.data.spans[i])
    IN  [ok |-> ok,
         spans |-> IF ok THEN [i \in DOMAIN m.data.spans |-> m.data.spans[i].span] ELSE <<>>]
=============================================================================
