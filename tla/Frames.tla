------------------------------- MODULE Frames -------------------------------
(***************************************************************************)
(* The frames of the protocols by their lengths: what Message::new cuts    *)
(* off (src/src/protocol.rs), and what the decoders of src/src/translator  *)
(* .rs and the codecs behind them accept and keep of the payload.  A frame *)
(* is [protocol, device_id_len, payload, intact]: well-formed (version,    *)
(* magic, modulation, length fields), with a checksum that fits it if and  *)
(* only if it is intact, that is, if no payload byte changed on the way.   *)
(***************************************************************************)
EXTENDS Integers, FiniteSetsExt

\* Bytes in front of the payload (Samsara: without its device id) and behind it.
Header == [IridiumSBD |-> 3, InmarsatC |-> 14, VSAT |-> 12, HFVHF |-> 5, RockBLOCK |-> 3,
           Samsara |-> 31, NIDD |-> 9, ASTSpaceMobile |-> 0, LoRaMesh |-> 0]
Checksum == [IridiumSBD |-> 2, InmarsatC |-> 2, VSAT |-> 0, HFVHF |-> 0, RockBLOCK |-> 2,
             Samsara |-> 0, NIDD |-> 0, ASTSpaceMobile |-> 0, LoRaMesh |-> 0]

max_message_size ==
    [IridiumSBD |-> 340, InmarsatC |-> 128, VSAT |-> 65536, HFVHF |-> 1024, RockBLOCK |-> 340,
     Samsara |-> 1048576, NIDD |-> 1600, ASTSpaceMobile |-> 120000000, LoRaMesh |-> 250]

Size(f) == Header[f.protocol] + f.device_id_len + f.payload + Checksum[f.protocol]

\* Message::new cuts the data, Message::new_with_temporal takes it as it is.
New(f) == [frame |-> f, bytes |-> Min({Size(f), max_message_size[f.protocol]})]
new_with_temporal(f) == [frame |-> f, bytes |-> Size(f)]

\* A decoder answers Err, or how many bytes of the payload the translation holds.
Err == -1

\* A bug to compare with: the payload ends where the data ends.
decode_what_is_there(m) ==
    IF m.bytes < 3 \/ m.frame.payload > 340 THEN Err ELSE Min({m.frame.payload, m.bytes - 3})

decode_iridium_sbd(m) ==
    IF m.bytes < 3 \/ m.frame.payload > 340 \/ m.bytes < 3 + m.frame.payload
    THEN Err ELSE m.frame.payload

\* The checksum is in the last two bytes: it only fits a frame that was not cut.
\* encode() has room for 114 bytes of payload.
decode_inmarsat_c(m) ==
    IF m.bytes < 16 \/ m.bytes # Size(m.frame) \/ ~m.frame.intact THEN Err ELSE Min({m.bytes - 16, 114})

compress_for_cellular(m) == IF m.bytes < 16 THEN Err ELSE m.bytes - 12

\* Samples of two bytes; half a sample at the end is dropped.
codec_translate_to_digital(m) == IF m.bytes < 8 THEN Err ELSE 2 * ((m.bytes - 5) \div 2)

decode_samsara(m) ==
    LET body == 31 + m.frame.device_id_len
    IN  IF m.frame.device_id_len > 1024 \/ m.bytes < body \/ m.bytes - body < m.frame.payload
        THEN Err ELSE m.frame.payload

decode(m) ==
    LET p == m.frame.protocol
    IN  CASE p \in {"IridiumSBD", "RockBLOCK"} -> decode_iridium_sbd(m)
          [] p = "InmarsatC" -> decode_inmarsat_c(m)
          [] p = "VSAT" -> compress_for_cellular(m)
          [] p = "HFVHF" -> codec_translate_to_digital(m)
          [] p = "Samsara" -> decode_samsara(m)
          [] OTHER -> m.bytes - Header[p]

\* A bug to compare with: the length field is taken for what is there.
ParseHeaderOnly(data) ==
    IF data.bytes < 3 \/ data.frame.payload > 340 THEN Err ELSE data.frame.payload

\* IridiumSBDMessage::parse: the checksum is read if it is there, and not compared.
parse(data) ==
    IF data.bytes < 3 \/ data.bytes < 3 + data.frame.payload \/ data.frame.payload > 340
    THEN Err ELSE data.frame.payload

\* A checksum that was cut off reads as zero.
validate_checksum(data) ==
    data.frame.intact /\ data.bytes >= 3 + data.frame.payload + 2

\* SamsaraMessage::parse, a second decoder of the format of decode_samsara.  Its
\* header_size leaves out the four bytes of payload_len, which are read all the same.
Panic == -2
SamsaraParse(data) ==
    LET id == data.frame.device_id_len
    IN  IF data.bytes < 31 \/ data.bytes < 27 + id THEN Err
        ELSE IF data.bytes < 31 + id THEN Panic
        ELSE IF data.bytes < 31 + id + data.frame.payload THEN Err ELSE data.frame.payload

\* NIDDMessage::parse, for whoever receives the frame that was passed through.
NIDDParse(data) ==
    IF data.bytes < 9 \/ data.bytes < 9 + data.frame.payload \/ data.frame.payload > 1600
    THEN Err ELSE data.frame.payload

\* ASTSProtobufMessage::set_payload and encode_to_buffer: the bytes written.
encode_to_buffer(payload_len, buffer_len) ==
    IF payload_len > 1024 \/ buffer_len < 7 + payload_len THEN Err ELSE 7 + payload_len
=============================================================================
