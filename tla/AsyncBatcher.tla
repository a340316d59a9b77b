---------------------------- MODULE AsyncBatcher ----------------------------
(***************************************************************************)
(* The task of src/src/batcher.rs that groups incoming messages before     *)
(* they are routed.  It flushes early for a burst message (its spread is   *)
(* above spread_threshold_ms) and for many safety-critical ones, and hands *)
(* emergency messages on alone.  What a property can tell about a message  *)
(* is which of these it is.                                                *)
(***************************************************************************)
EXTENDS Integers, Sequences, SequencesExt, FiniteSets

CONSTANTS Messages, Emergency, SafetyCritical, Burst,
          max_batch_size, batch_timeout, buffer_size,
          SafetyLimit      \* safety-critical messages that force a flush, 5 in the code

VARIABLES input, tx_open,   \* the input channel; its sender still exists
          buffer, age,      \* the buffer; the time since last_flush, up to batch_timeout
          task, sending,    \* where the task is; the batch it is sending
          output, rx_open   \* the output channel; its receiver still exists

vars == <<input, tx_open, buffer, age, task, sending, output, rx_open>>

Init ==
    /\ input = <<>> /\ tx_open = TRUE
    /\ buffer = <<>> /\ age = 0
    /\ task = "select" /\ sending = <<>>
    /\ output = <<>> /\ rx_open = TRUE

Send(m) ==
    /\ tx_open /\ Len(input) < buffer_size
    /\ input' = Append(input, m)
    /\ UNCHANGED <<tx_open, buffer, age, task, sending, output, rx_open>>

\* The AsyncBatcher is dropped, and the sender with it.
DropSender ==
    /\ tx_open
    /\ tx_open' = FALSE
    /\ UNCHANGED <<input, buffer, age, task, sending, output, rx_open>>

\* Faulty variant of should_flush: only looks at the oldest message for a burst.
ShouldFlushFirst(b) ==
    \/ Cardinality({i \in DOMAIN b : b[i] \in SafetyCritical}) >= SafetyLimit
    \/ b[1] \in Burst

should_flush(b) ==
    \/ Cardinality({i \in DOMAIN b : b[i] \in SafetyCritical}) >= SafetyLimit
    \/ \E i \in DOMAIN b : b[i] \in Burst

FlushDue(b) == Len(b) >= max_batch_size \/ age >= batch_timeout \/ should_flush(b)

\* Faulty variant of ReceiveEmergency: takes the buffer along.
ReceiveEmergencyWithBuffer ==
    /\ task = "select" /\ input # <<>> /\ Head(input) \in Emergency
    /\ input' = Tail(input)
    /\ sending' = Append(buffer, Head(input)) /\ buffer' = <<>> /\ task' = "bypass"
    /\ UNCHANGED <<tx_open, age, output, rx_open>>

\* recv() returned an emergency message: a batch of its own, past the buffer.
ReceiveEmergency ==
    /\ task = "select" /\ input # <<>> /\ Head(input) \in Emergency
    /\ input' = Tail(input)
    /\ sending' = <<Head(input)>> /\ task' = "bypass"
    /\ UNCHANGED <<tx_open, buffer, age, output, rx_open>>

\* recv() returned another message.
ReceiveNormal ==
    LET b == Append(buffer, Head(input))
    IN  /\ task = "select" /\ input # <<>> /\ Head(input) \notin Emergency
        /\ input' = Tail(input)
        /\ \/ FlushDue(b) /\ sending' = b /\ buffer' = <<>> /\ task' = "flush"
           \/ ~FlushDue(b) /\ buffer' = b /\ UNCHANGED <<task, sending>>
        /\ UNCHANGED <<tx_open, age, output, rx_open>>

\* recv() returned None: the task ends, and its buffer goes with it unsent.
ReceiveNone ==
    /\ task = "select" /\ input = <<>> /\ ~tx_open
    /\ task' = "done"
    /\ UNCHANGED <<input, tx_open, buffer, age, sending, output, rx_open>>

\* Faulty variant of TimeoutFlush: only a full buffer.
TimeoutFlushFull ==
    /\ task = "select" /\ age >= batch_timeout /\ Len(buffer) >= max_batch_size
    /\ sending' = buffer /\ buffer' = <<>> /\ task' = "flush"
    /\ UNCHANGED <<input, tx_open, age, output, rx_open>>

\* sleep_until(last_flush + batch_timeout) is over.
TimeoutFlush ==
    /\ task = "select" /\ age >= batch_timeout /\ buffer # <<>>
    /\ sending' = buffer /\ buffer' = <<>> /\ task' = "flush"
    /\ UNCHANGED <<input, tx_open, age, output, rx_open>>

\* output_tx.send: waits for a place; without a receiver the batch is dropped.
\* Only a flush sets last_flush.
SendBatch ==
    /\ task \in {"flush", "bypass"}
    /\ rx_open => Len(output) < buffer_size
    /\ output' = IF rx_open THEN Append(output, sending) ELSE output
    /\ age' = IF task = "flush" THEN 0 ELSE age
    /\ sending' = <<>> /\ task' = "select"
    /\ UNCHANGED <<input, tx_open, buffer, rx_open>>

Tick ==
    /\ age < batch_timeout
    /\ age' = age + 1
    /\ UNCHANGED <<input, tx_open, buffer, task, sending, output, rx_open>>

\* The consumer task of Gateway::new takes a batch.
TakeBatch ==
    /\ output # <<>>
    /\ output' = Tail(output)
    /\ UNCHANGED <<input, tx_open, buffer, age, task, sending, rx_open>>

\* The consumer task is gone.
DropReceiver ==
    /\ rx_open
    /\ rx_open' = FALSE /\ output' = <<>>
    /\ UNCHANGED <<input, tx_open, buffer, age, task, sending>>

TaskStep == ReceiveEmergency \/ ReceiveNormal \/ ReceiveNone \/ TimeoutFlush \/ SendBatch

Next ==
    \/ \E m \in Messages : Send(m)
    \/ DropSender \/ TaskStep \/ Tick \/ TakeBatch \/ DropReceiver

Spec == Init /\ [][Next]_vars

\* The runtime polls a task that is ready, time passes, the consumer keeps reading.
\* select! chooses at random among the branches that are ready, so the timeout is
\* not passed over for ever while emergency messages keep coming.
FairSpec ==
    /\ Spec
    /\ WF_vars(TaskStep) /\ SF_vars(TimeoutFlush)
    /\ WF_vars(Tick) /\ WF_vars(TakeBatch)
----------------------------------------------------------------------------
(* Properties *)

\* batcher.rs:34, "reconnect-burst messages should not sit in the buffer waiting for
\* the normal time window": whenever the task goes back to waiting, the buffer holds
\* no burst message and fewer than SafetyLimit safety-critical ones, also when an
\* emergency message was handed on in between.
BurstNeverWaits ==
    /\ Range(buffer) \cap Burst = {}
    /\ Cardinality({i \in DOMAIN buffer : buffer[i] \in SafetyCritical}) < SafetyLimit

IsEmergency(m) == m \in Emergency
IsNormal(m) == m \notin Emergency
Held == sending \o buffer \o input

Bypass == INSTANCE Coalescer
    WITH Messages <- Emergency, max_batch_size <- 1,
         pending <- SelectSeq(Held, IsEmergency),
         out <- SelectSeq(output, LAMBDA b : \A i \in DOMAIN b : IsEmergency(b[i])),
         listening <- rx_open

Batched == INSTANCE Coalescer
    WITH Messages <- Messages \ Emergency,
         pending <- SelectSeq(Held, IsNormal),
         out <- SelectSeq(output, LAMBDA b : \A i \in DOMAIN b : IsNormal(b[i])),
         listening <- rx_open

\* Emergency messages leave one by one, in the order they were sent, and none is
\* lost or repeated, whatever the batcher does with the others; and these leave in
\* the order they were sent, in batches of at most max_batch_size that hold no
\* emergency message.
ImplementsTwoCoalescers == Bypass!Spec /\ Batched!Spec

\* As long as the batcher is not dropped, a message that send() accepted leaves
\* sooner or later, even when no other message follows it.
EventuallySent == []tx_open => Bypass!KeepsEmitting /\ Batched!KeepsEmitting
=============================================================================
