----------------------------- MODULE MCBatchers -----------------------------
(* The two batchers.  A behaviour drives one of them.  For the one behind  *)
(* the translator, two messages that can be told apart are enough to see   *)
(* an order; the one in front of it has a message of each kind that it     *)
(* treats differently.  The channels are bounded, so no other bound is     *)
(* needed.                                                                 *)
EXTENDS TransmissionBatcher

CONSTANTS Arrivals, Emergency, SafetyCritical, Burst,
          arrivals_batch_size, arrivals_timeout, arrivals_buffer_size, SafetyLimit

ASSUME ArrivalsAssumption ==
    /\ Emergency \cup SafetyCritical \cup Burst \subseteq Arrivals
    /\ {arrivals_batch_size, arrivals_timeout, arrivals_buffer_size, SafetyLimit} \subseteq Nat \ {0}

VARIABLES in_input, in_tx_open, in_buffer, in_age, in_task, in_sending, in_output, in_rx_open,
          subject

incoming == <<in_input, in_tx_open, in_buffer, in_age, in_task, in_sending, in_output, in_rx_open>>
all == <<vars, incoming, subject>>

Incoming == INSTANCE AsyncBatcher
    WITH Messages <- Arrivals, max_batch_size <- arrivals_batch_size,
         batch_timeout <- arrivals_timeout, buffer_size <- arrivals_buffer_size,
         input <- in_input, tx_open <- in_tx_open, buffer <- in_buffer, age <- in_age,
         task <- in_task, sending <- in_sending, output <- in_output, rx_open <- in_rx_open

BatchersInit == subject \in {"transmission", "arrival"} /\ Init /\ Incoming!Init

TransmissionStep == subject = "transmission" /\ Next /\ UNCHANGED <<incoming, subject>>

ArrivalStep == subject = "arrival" /\ Incoming!Next /\ UNCHANGED <<vars, subject>>

BatchersNext == TransmissionStep \/ ArrivalStep

Transmission(A) == subject = "transmission" /\ A /\ UNCHANGED <<incoming, subject>>
Arrival(A) == subject = "arrival" /\ A /\ UNCHANGED <<vars, subject>>

\* The fairness of the two, as in their own FairSpec.
BatchersSpec ==
    /\ BatchersInit /\ [][BatchersNext]_all
    /\ WF_all(Transmission(TaskStep)) /\ WF_all(Transmission(Tick))
    /\ WF_all(Transmission(TakeBatch))
    /\ WF_all(Arrival(Incoming!TaskStep)) /\ SF_all(Arrival(Incoming!TimeoutFlush))
    /\ WF_all(Arrival(Incoming!Tick)) /\ WF_all(Arrival(Incoming!TakeBatch))
----------------------------------------------------------------------------
\* A burst message never waits in the buffer (batcher.rs).
BurstNeverWaits == Incoming!BurstNeverWaits

\* Emergency messages leave alone and the others in batches, both in order, none lost
\* or repeated (batcher.rs).
ImplementsTwoCoalescers == Incoming!ImplementsTwoCoalescers

\* What send() accepted leaves sooner or later (batcher.rs).
ArrivalsEventuallySent == Incoming!EventuallySent
=============================================================================
