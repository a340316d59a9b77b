------------------------ MODULE TransmissionBatcher ------------------------
(***************************************************************************)
(* The task of src/src/transmission_batcher.rs that coalesces translated   *)
(* messages into batches for one HTTP request each.  It is the only reader *)
(* of `input` and the only writer of `output`, both bounded channels of    *)
(* tokio.  A send on a full channel waits.                                 *)
(***************************************************************************)
EXTENDS Integers, Sequences

CONSTANTS Messages, max_batch_size, batch_timeout, buffer_size

ASSUME BatcherAssumption ==
    /\ max_batch_size \in Nat \ {0}
    /\ batch_timeout \in Nat \ {0}
    /\ buffer_size \in Nat \ {0}

VARIABLES input, tx_open,   \* the input channel; its sender still exists
          buffer, age,      \* the buffer; the time since last_flush, up to batch_timeout
          task, sending,    \* where the task is; the batch it is sending
          output, rx_open   \* the output channel; its receiver still exists

vars == <<input, tx_open, buffer, age, task, sending, output, rx_open>>

Init ==
    /\ input = <<>> /\ tx_open = TRUE
    /\ buffer = <<>> /\ age = 0
    /\ task = "select" /\ sending = <<>>
    /\ output = <<>> /\ rx_open = TRUE

\* enqueue: the message gets a place in the channel.
Enqueue(m) ==
    /\ tx_open /\ Len(input) < buffer_size
    /\ input' = Append(input, m)
    /\ UNCHANGED <<tx_open, buffer, age, task, sending, output, rx_open>>

\* The TransmissionBatcher is dropped, and the sender with it.
DropSender ==
    /\ tx_open
    /\ tx_open' = FALSE
    /\ UNCHANGED <<input, buffer, age, task, sending, output, rx_open>>

StartSending(b, then) == sending' = b /\ buffer' = <<>> /\ task' = then

FlushDue(b) == Len(b) >= max_batch_size \/ age >= batch_timeout

\* recv() returned a message.
Receive ==
    LET b == Append(buffer, Head(input))
    IN  /\ task = "select" /\ input # <<>>
        /\ input' = Tail(input)
        /\ \/ FlushDue(b) /\ StartSending(b, "send")
           \/ ~FlushDue(b) /\ buffer' = b /\ UNCHANGED <<task, sending>>
        /\ UNCHANGED <<tx_open, age, output, rx_open>>

\* Faulty variant of ReceiveNone: ends without flushing.
ReceiveNoneUnflushed ==
    /\ task = "select" /\ input = <<>> /\ ~tx_open
    /\ task' = "done"
    /\ UNCHANGED <<buffer, sending, input, tx_open, age, output, rx_open>>

\* recv() returned None: the rest is flushed and the task ends.
ReceiveNone ==
    /\ task = "select" /\ input = <<>> /\ ~tx_open
    /\ \/ buffer # <<>> /\ StartSending(buffer, "last")
       \/ buffer = <<>> /\ task' = "done" /\ UNCHANGED <<buffer, sending>>
    /\ UNCHANGED <<input, tx_open, age, output, rx_open>>

\* Faulty variants of TimeoutFlush: only a full buffer; the buffer is not cleared.
TimeoutFlushFull ==
    /\ task = "select" /\ age >= batch_timeout /\ Len(buffer) >= max_batch_size
    /\ StartSending(buffer, "send")
    /\ UNCHANGED <<input, tx_open, age, output, rx_open>>
TimeoutFlushTwice ==
    /\ task = "select" /\ age >= batch_timeout /\ buffer # <<>>
    /\ sending' = buffer /\ task' = "send"
    /\ UNCHANGED <<buffer, input, tx_open, age, output, rx_open>>

\* sleep_until(last_flush + batch_timeout) is over.
TimeoutFlush ==
    /\ task = "select" /\ age >= batch_timeout /\ buffer # <<>>
    /\ StartSending(buffer, "send")
    /\ UNCHANGED <<input, tx_open, age, output, rx_open>>

\* output_tx.send: waits for a place; without a receiver the batch is dropped.
SendBatch ==
    /\ task \in {"send", "last"}
    /\ rx_open => Len(output) < buffer_size
    /\ output' = IF rx_open THEN Append(output, sending) ELSE output
    /\ sending' = <<>>
    /\ task' = IF task = "send" THEN "select" ELSE "done"
    /\ age' = IF task = "send" THEN 0 ELSE age
    /\ UNCHANGED <<input, tx_open, buffer, rx_open>>

Tick ==
    /\ age < batch_timeout
    /\ age' = age + 1
    /\ UNCHANGED <<input, tx_open, buffer, task, sending, output, rx_open>>

\* The consumer task of Gateway::new takes a batch.
TakeBatch ==
    /\ output # <<>>
    /\ output' = Tail(output)
    /\ UNCHANGED <<input, tx_open, buffer, age, task, sending, rx_open>>

\* The consumer task is gone.
DropReceiver ==
    /\ rx_open
    /\ rx_open' = FALSE /\ output' = <<>>
    /\ UNCHANGED <<input, tx_open, buffer, age, task, sending>>

TaskStep == Receive \/ ReceiveNone \/ TimeoutFlush \/ SendBatch

Next ==
    \/ \E m \in Messages : Enqueue(m)
    \/ DropSender \/ TaskStep \/ Tick \/ TakeBatch \/ DropReceiver

Spec == Init /\ [][Next]_vars

\* The runtime polls a task that is ready, time passes, the consumer keeps reading.
FairSpec == Spec /\ WF_vars(TaskStep) /\ WF_vars(Tick) /\ WF_vars(TakeBatch)
----------------------------------------------------------------------------
(* Properties *)

\* Every variable keeps its type; the buffer and a batch never outgrow max_batch_size.
TypeOK ==
    /\ input \in Seq(Messages) /\ Len(input) <= buffer_size
    /\ buffer \in Seq(Messages) /\ Len(buffer) < max_batch_size
    /\ sending \in Seq(Messages) /\ Len(sending) <= max_batch_size
    /\ output \in Seq(Seq(Messages)) /\ Len(output) <= buffer_size
    /\ task \in {"select", "send", "last", "done"}
    /\ age \in 0..batch_timeout
    /\ tx_open \in BOOLEAN /\ rx_open \in BOOLEAN

\* transmission_batcher.rs:68, "Channel closed - flush remaining and exit": when the
\* task has ended it holds no message.
NothingLeftBehind == task = "done" => sending \o buffer \o input = <<>>

Promise == INSTANCE Coalescer WITH pending <- sending \o buffer \o input,
                                   out <- output, listening <- rx_open

\* Messages leave in the order of enqueue(), none is lost, none is sent twice, and
\* no batch is empty or larger than max_batch_size.
ImplementsCoalescer == Promise!Spec

\* A message that enqueue() accepted does not wait for ever, even when no other
\* message comes to fill its batch.
EventuallySent == Promise!KeepsEmitting
=============================================================================
