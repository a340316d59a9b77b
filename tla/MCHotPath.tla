----------------------------- MODULE MCHotPath -----------------------------
(* A complete Iridium SBD frame, intact and with a changed payload byte.   *)
EXTENDS HotPath

Received == {F!New([protocol |-> "IridiumSBD", device_id_len |-> 0, payload |-> 335, intact |-> i]) :
             i \in BOOLEAN}
=============================================================================
