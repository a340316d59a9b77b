------------------------------ MODULE HotPath ------------------------------
(***************************************************************************)
(* translate_iridium_to_asts_hot_path (src/src/translator.rs): an Iridium  *)
(* SBD frame becomes an ASTS frame in a buffer of the caller, on any       *)
(* thread.  The threads meet at one counter, from which the frames take    *)
(* their sequence numbers (src/src/asts_protobuf.rs).                      *)
(***************************************************************************)
EXTENDS Integers, Sequences

CONSTANTS Uplinked,          \* the Iridium frames that come in
          Buffers,           \* lengths of the output buffers
          SequenceSpace,     \* 2^32: the counter is an AtomicU32
          MaxHot             \* bound: calls

VARIABLES GLOBAL_SEQUENCE,
          encoded,           \* history: what was written
          calls

vars == <<GLOBAL_SEQUENCE, encoded, calls>>

F == INSTANCE Frames

Init == GLOBAL_SEQUENCE = 0 /\ encoded = <<>> /\ calls = 0

\* ZeroCopyTranslator::translate: the sequence number is used up even if the buffer is
\* too short.
translate(m, payload_len, buffer_len) ==
    /\ GLOBAL_SEQUENCE' = (GLOBAL_SEQUENCE + 1) % SequenceSpace
    /\ encoded' = IF F!encode_to_buffer(payload_len, buffer_len) = F!Err THEN encoded
                  ELSE Append(encoded, [sequence |-> GLOBAL_SEQUENCE, payload |-> payload_len,
                                        of |-> m])

translate_iridium_to_asts_hot_path(m, buffer_len) ==
    /\ calls < MaxHot /\ calls' = calls + 1
    /\ LET n == F!parse(m)
       IN  IF n = F!Err THEN UNCHANGED <<GLOBAL_SEQUENCE, encoded>> ELSE translate(m, n, buffer_len)

\* HybridTranslator::translate_safe brings a buffer of its own.
translate_safe(m) == translate_iridium_to_asts_hot_path(m, 2048)

Next ==
    \E m \in Uplinked :
        translate_safe(m) \/ \E b \in Buffers : translate_iridium_to_asts_hot_path(m, b)

Spec == Init /\ [][Next]_vars
----------------------------------------------------------------------------
\* The hot path accepts the frames that the translator accepts (decode_iridium_sbd) and
\* writes the whole payload, and no two ASTS frames have the same sequence number.
FramesAreNumbered ==
    /\ \A i, j \in DOMAIN encoded : i # j => encoded[i].sequence # encoded[j].sequence
    /\ \A i \in DOMAIN encoded :
         encoded[i].payload = encoded[i].of.frame.payload
           /\ F!decode(encoded[i].of) = encoded[i].payload

\* IridiumSBDMessage::parse "Returns None if ... checksum is invalid" (iridium_sbd.rs), so
\* every ASTS frame the hot path writes comes from a frame whose checksum is right.
ChecksumsAreValid == \A i \in DOMAIN encoded : F!validate_checksum(encoded[i].of)
=============================================================================
