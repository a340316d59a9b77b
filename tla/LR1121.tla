------------------------------- MODULE LR1121 -------------------------------
(***************************************************************************)
(* The LoRa driver of src/src/hardware/lr1121.rs and the chip it drives    *)
(* (external): its mode, its one packet FIFO, where sent and received      *)
(* packets start at the same address, and its interrupt flags.  The chip   *)
(* hears frames at any time while it is in continuous RX, also between two *)
(* SPI transfers of the driver.                                            *)
(*                                                                         *)
(* The content of the FIFO is the number of the frame heard, or Own for    *)
(* the data of tx_packet.  Any transfer may fail: the driver returns the   *)
(* error and leaves the chip select low, and the chip does not recognise   *)
(* the command that follows.                                               *)
(***************************************************************************)
EXTENDS Integers, Sequences

CONSTANTS MaxHeard,   \* bound: frames on the air
          MaxFaults   \* bound: SPI transfers that fail

VARIABLES mode, fifo, irq,   \* the chip
          cs,                \* the chip select line
          op, size, data,    \* where the driver is; rx_packet's length and data
          result,            \* what the last call returned
          heard,             \* frames heard so far
          faults,            \* SPI transfers that failed
          returned           \* history: what rx_packet returned

chip == <<mode, fifo, irq>>
vars == <<mode, fifo, irq, cs, op, size, data, result, heard, faults, returned>>

Own == 0

\* The state after LR1121::new: in standby, configured, no flag set.
Init ==
    /\ mode = "standby" /\ fifo = Own /\ irq = {} /\ cs = "high"
    /\ op = "idle" /\ size = Own /\ data = Own /\ result = "none"
    /\ heard = 0 /\ faults = 0 /\ returned = <<>>

\* A frame on the air.
Hear ==
    /\ heard < MaxHeard
    /\ heard' = heard + 1
    /\ IF mode = "rx" THEN fifo' = heard' /\ irq' = irq \cup {"RxDone"}
                      ELSE UNCHANGED <<fifo, irq>>
    /\ UNCHANGED <<mode, cs, op, size, data, result, faults, returned>>

\* The packet is on the air; the chip goes back to standby.
Transmitted ==
    /\ mode = "tx"
    /\ mode' = "standby" /\ irq' = irq \cup {"TxDone"}
    /\ UNCHANGED <<fifo, cs, op, size, data, result, heard, faults, returned>>

\* A transfer ends with the chip select high; the chip obeys unless it was low before.
Transfer(next) == cs' = "high" /\ op' = next /\ UNCHANGED <<heard, faults>>

\* rx_packet: SetRx.
StartRx ==
    /\ op = "idle" /\ Transfer("rx_wait")
    /\ mode' = IF cs = "high" THEN "rx" ELSE mode
    /\ UNCHANGED <<fifo, irq, size, data, result, returned>>

\* wait_for_irq sees its flag.
WaitForIrq(flag, now, next) ==
    /\ op = now /\ flag \in irq /\ Transfer(next)
    /\ UNCHANGED <<mode, fifo, irq, size, data, result, returned>>

\* read_buffer: the length register, and then the FIFO.
ReadSize ==
    /\ op = "rx_size" /\ Transfer("rx_data")
    /\ size' = fifo
    /\ UNCHANGED <<mode, fifo, irq, data, result, returned>>

ReadData ==
    /\ op = "rx_data" /\ Transfer("rx_rssi")
    /\ data' = fifo
    /\ UNCHANGED <<mode, fifo, irq, size, result, returned>>

\* get_rssi_snr, whose values no property looks at.
GetRssiSnr ==
    /\ op = "rx_rssi" /\ Transfer("rx_clear")
    /\ UNCHANGED <<mode, fifo, irq, size, data, result, returned>>

\* Faulty variant of clear_irq: clears the flag that was waited for.
ClearOne(flag) == irq' = irq \ {flag}

\* clear_irq writes 0xFFFF: all flags.
clear_irq(flag) == irq' = {}

ReturnFrame ==
    /\ op = "rx_clear" /\ Transfer("idle")
    /\ clear_irq("RxDone")
    /\ result' = "ok" /\ returned' = Append(returned, data)
    /\ UNCHANGED <<mode, fifo, size, data>>

\* tx_packet: write_buffer ...
StartTx ==
    /\ op = "idle" /\ Transfer("tx_set")
    /\ fifo' = IF cs = "high" THEN Own ELSE fifo
    /\ UNCHANGED <<mode, irq, size, data, result, returned>>

\* ... SetTx ...
SetTx ==
    /\ op = "tx_set" /\ Transfer("tx_wait")
    /\ mode' = "tx"
    /\ UNCHANGED <<fifo, irq, size, data, result, returned>>

\* ... and, after TxDone, clear_irq.
ReturnSent ==
    /\ op = "tx_clear" /\ Transfer("idle")
    /\ clear_irq("TxDone")
    /\ result' = "ok"
    /\ UNCHANGED <<mode, fifo, size, data, returned>>

\* A transfer fails, the first one of a call included, and does not reach the chip.
SpiFails ==
    /\ faults < MaxFaults
    /\ faults' = faults + 1 /\ cs' = "low" /\ op' = "idle" /\ result' = "err"
    /\ UNCHANGED <<mode, fifo, irq, size, data, heard, returned>>

DriverStep ==
    \/ WaitForIrq("RxDone", "rx_wait", "rx_size")
    \/ ReadSize \/ ReadData \/ GetRssiSnr \/ ReturnFrame
    \/ SetTx \/ WaitForIrq("TxDone", "tx_wait", "tx_clear") \/ ReturnSent

Next == Hear \/ Transmitted \/ StartRx \/ StartTx \/ DriverStep \/ SpiFails

----------------------------------------------------------------------------
(* Properties *)

\* What rx_packet returns was heard.  Frames are returned in the order of their
\* arrival and none of them twice, even when SPI transfers fail and their flags
\* stay set; and as long as no transfer fails, rx_packet never takes the data of an
\* earlier tx_packet, which uses the same FIFO, for a frame.
FramesFromTheAir ==
    /\ \A i, j \in DOMAIN returned :
         i < j /\ returned[i] # Own /\ returned[j] # Own => returned[i] < returned[j]
    /\ faults = 0 => \A i \in DOMAIN returned : returned[i] # Own
=============================================================================
