----------------------------- MODULE MCLibrary -----------------------------
(* Sizes at the edges: an Iridium payload of 337 bytes loses only its      *)
(* checksum to Message::new, one of 338 is cut; an Inmarsat C payload of   *)
(* 112 bytes fits, 113 does not; VSAT and HF/VHF are at the shortest that  *)
(* parses and below; names of 3 and of 256 bytes.  Spreads -1 (a clock     *)
(* that runs ahead), 1 and 6, against the bases of two protocols.          *)
EXTENDS Library, TLC

Bases == [p \in Protocols |-> IF p = "Samsara" THEN 0 ELSE 3]
Clocks == {<<2, 1>>, <<0, 1>>, <<0, 6>>}

Interchangeable == Permutations(Devices)
Drifts == {-1, 1}

Frame(p, id, n) == [protocol |-> p, device_id_len |-> id, payload |-> n, intact |-> TRUE]
Edges == {Frame("IridiumSBD", 0, n) : n \in {337, 338}}
         \cup {Frame("InmarsatC", 0, n) : n \in {112, 113}}
         \cup {Frame("VSAT", 0, 3), Frame("HFVHF", 0, 3), Frame("NIDD", 0, 1591), Frame("NIDD", 0, 1592),
               Frame("Samsara", 1024, 1047521), Frame("Samsara", 1024, 1047522),
               [Frame("InmarsatC", 0, 112) EXCEPT !.intact = FALSE],
               [Frame("IridiumSBD", 0, 335) EXCEPT !.intact = FALSE]}
F == INSTANCE Frames
Messages == {F!New(f) : f \in Edges} \cup {F!new_with_temporal(Frame("InmarsatC", 0, 115))}
Iridium == {m \in Messages : m.frame.protocol = "IridiumSBD"}

B == INSTANCE TelemetryBundle
Measured == {B!CompactSpan(1, 1, 1, <<>>, 3), B!CompactSpan(1, 0, 2, <<<<"t_event", 2>>>>, 3),
             B!CompactSpan(1, 2, 1, <<>>, 256)}

R(type, transformation, arg) ==
    [type |-> type, protocol |-> "IridiumSBD", transformation |-> transformation,
     arg |-> arg, target |-> arg]
Limits == {R("location", "Throttle", 10000), R("location", "RateLimit", 5000),
           R("location", "Aggregate", 0), R("location", "Duplicate", 2),
           R("telemetry", "Passthrough", 0), R("telemetry", "RateLimit", 10000)}
=============================================================================
