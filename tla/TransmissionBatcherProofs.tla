--------------------- MODULE TransmissionBatcherProofs ---------------------
(***************************************************************************)
(* For every batch size, timeout and channel size, the task of             *)
(* transmission_batcher.rs implements the abstract Coalescer.              *)
(*                                                                         *)
(* The invariant ties the messages the task holds to the point it is at:   *)
(* nothing is being sent while it selects, the buffer is empty while it    *)
(* sends, and once the input has closed nothing comes after the last batch.*)
(***************************************************************************)
EXTENDS TransmissionBatcher, QueueTheorems

Held ==
    /\ task \in {"select", "done"} => sending = <<>>
    /\ task \in {"send", "last"} => sending # <<>> /\ buffer = <<>>
    /\ task \in {"last", "done"} => input = <<>> /\ ~tx_open
    /\ task = "done" => buffer = <<>>

BatcherInv == TypeOK /\ Held

\* The invariant survives every step.
LEMMA BatcherStep ==
    ASSUME BatcherInv, [Next]_vars
    PROVE  BatcherInv'
<1> USE BatcherAssumption
<1>1. ASSUME NEW m \in Messages, Enqueue(m) PROVE BatcherInv'
    <2>1. input' \in Seq(Messages) /\ Len(input') <= buffer_size
        BY <1>1 DEF Enqueue, BatcherInv, TypeOK
    <2> QED
        BY <1>1, <2>1 DEF Enqueue, BatcherInv, TypeOK, Held
<1>2. ASSUME DropSender PROVE BatcherInv'
    BY <1>2 DEF DropSender, BatcherInv, TypeOK, Held
<1>3. ASSUME Receive PROVE BatcherInv'
    <2> DEFINE b == Append(buffer, Head(input))
    <2>1. /\ input' \in Seq(Messages) /\ Len(input') <= buffer_size
          /\ b \in Seq(Messages) /\ Len(b) = Len(buffer) + 1 /\ b # <<>>
          /\ Len(buffer) \in Nat /\ Len(b) <= max_batch_size
        <3>1. /\ input \in Seq(Messages) /\ input # <<>> /\ input' = Tail(input)
              /\ buffer \in Seq(Messages) /\ Len(buffer) < max_batch_size
              /\ Len(input) <= buffer_size
            BY <1>3 DEF Receive, BatcherInv, TypeOK
        <3>2. /\ Head(input) \in Messages /\ Tail(input) \in Seq(Messages)
              /\ Len(Tail(input)) = Len(input) - 1 /\ Len(input) \in Nat
            BY <3>1, HeadTailProperties, LenProperties
        <3>3. b \in Seq(Messages) /\ Len(b) = Len(buffer) + 1 /\ Len(buffer) \in Nat
            BY <3>1, <3>2, AppendProperties, LenProperties
        <3>4. b # <<>>
            BY <3>3, EmptySeq
        <3> QED
            BY <3>1, <3>2, <3>3, <3>4
    <2> HIDE DEF b
    <2>2. CASE FlushDue(b) /\ StartSending(b, "send")
        BY <1>3, <2>1, <2>2 DEF Receive, StartSending, BatcherInv, TypeOK, Held
    <2>3. CASE ~FlushDue(b) /\ buffer' = b /\ UNCHANGED <<task, sending>>
        <3>1. Len(b) < max_batch_size
            BY <2>1, <2>3 DEF FlushDue
        <3> QED
            BY <1>3, <2>1, <2>3, <3>1 DEF Receive, BatcherInv, TypeOK, Held
    <2> QED
        BY <1>3, <2>2, <2>3 DEF Receive, b
<1>4. ASSUME ReceiveNone PROVE BatcherInv'
    <2>1. CASE buffer # <<>>
        <3>1. /\ task' = "last" /\ sending' = buffer /\ buffer' = <<>>
              /\ task = "select" /\ input = <<>> /\ ~tx_open
              /\ UNCHANGED <<input, tx_open, age, output, rx_open>>
            BY <1>4, <2>1 DEF ReceiveNone, StartSending
        <3>2. TypeOK'
            BY <3>1, EmptySeq, LenProperties DEF BatcherInv, TypeOK
        <3>3. Held'
            BY <2>1, <3>1 DEF Held
        <3> QED
            BY <3>2, <3>3 DEF BatcherInv
    <2>2. CASE buffer = <<>>
        <3>1. /\ task' = "done" /\ task = "select" /\ input = <<>> /\ ~tx_open
              /\ UNCHANGED <<buffer, sending, input, tx_open, age, output, rx_open>>
            BY <1>4, <2>2 DEF ReceiveNone
        <3> QED
            BY <2>2, <3>1 DEF BatcherInv, TypeOK, Held
    <2> QED
        BY <2>1, <2>2
<1>5. ASSUME TimeoutFlush PROVE BatcherInv'
    BY <1>5 DEF TimeoutFlush, StartSending, BatcherInv, TypeOK, Held
<1>6. ASSUME SendBatch PROVE BatcherInv'
    <2>1. output' \in Seq(Seq(Messages)) /\ Len(output') <= buffer_size
        BY <1>6 DEF SendBatch, BatcherInv, TypeOK
    <2> QED
        BY <1>6, <2>1 DEF SendBatch, BatcherInv, TypeOK, Held
<1>7. ASSUME Tick PROVE BatcherInv'
    BY <1>7 DEF Tick, BatcherInv, TypeOK, Held
<1>8. ASSUME TakeBatch PROVE BatcherInv'
    <2>1. output' \in Seq(Seq(Messages)) /\ Len(output') <= buffer_size
        BY <1>8 DEF TakeBatch, BatcherInv, TypeOK
    <2> QED
        BY <1>8, <2>1 DEF TakeBatch, BatcherInv, TypeOK, Held
<1>9. ASSUME DropReceiver PROVE BatcherInv'
    <2>1. output' \in Seq(Seq(Messages)) /\ Len(output') <= buffer_size
        BY <1>9, EmptySeq DEF DropReceiver
    <2> QED
        BY <1>9, <2>1 DEF DropReceiver, BatcherInv, TypeOK, Held
<1>10. ASSUME UNCHANGED vars PROVE BatcherInv'
    BY <1>10 DEF vars, BatcherInv, TypeOK, Held
<1> QED
    BY <1>1, <1>2, <1>3, <1>4, <1>5, <1>6, <1>7, <1>8, <1>9, <1>10 DEF Next, TaskStep

\* The invariant holds in every reachable state.
THEOREM BatcherInvariant == Spec => []BatcherInv
<1>1. Init => BatcherInv
    BY BatcherAssumption DEF Init, BatcherInv, TypeOK, Held
<1> QED
    BY <1>1, BatcherStep, PTL DEF Spec

\* Channels, buffer and batches keep their types and their bounds.
THEOREM BatcherTypeCorrect == Spec => []TypeOK
<1>1. BatcherInv => TypeOK
    BY DEF BatcherInv
<1> QED
    BY <1>1, BatcherInvariant, PTL

\* The task ends only when every message it received has left.
THEOREM BatcherNothingLeftBehind == Spec => []NothingLeftBehind
<1>1. BatcherInv => NothingLeftBehind
    BY DEF BatcherInv, Held, NothingLeftBehind
<1> QED
    BY <1>1, BatcherInvariant, PTL

----------------------------------------------------------------------------
(* The refinement *)

Pending == sending \o buffer \o input

\* What the task holds is a sequence of messages.
LEMMA PendingType ==
    ASSUME BatcherInv
    PROVE  sending \in Seq(Messages) /\ buffer \in Seq(Messages) /\ input \in Seq(Messages)
           /\ sending \o buffer \in Seq(Messages) /\ Pending \in Seq(Messages)
<1>1. sending \in Seq(Messages) /\ buffer \in Seq(Messages) /\ input \in Seq(Messages)
    BY DEF BatcherInv, TypeOK
<1>2. sending \o buffer \in Seq(Messages)
    BY <1>1, ConcatProperties
<1> QED
    BY <1>1, <1>2, ConcatProperties DEF Pending

\* Moving messages inside the task is invisible.
LEMMA ReceiveHidden ==
    ASSUME BatcherInv, Receive
    PROVE  Pending' = Pending
<1>1. sending = <<>> /\ input # <<>> /\ input' = Tail(input)
    BY DEF BatcherInv, Held, Receive
<1> DEFINE b == Append(buffer, Head(input))
<1>2. /\ Head(input) \in Messages /\ Tail(input) \in Seq(Messages)
      /\ b \in Seq(Messages) /\ b \o Tail(input) = buffer \o input
    BY <1>1, PendingType, MoveHead, HeadTailProperties, AppendProperties
<1>3. Pending = buffer \o input
    BY <1>1, PendingType, ConcatEmptySeq DEF Pending
<1> HIDE DEF b
<1>4. \/ sending' = b /\ buffer' = <<>>
      \/ buffer' = b /\ sending' = <<>>
    BY <1>1 DEF Receive, StartSending, b
<1>5. sending' \o buffer' = b
    BY <1>2, <1>4, ConcatEmptySeq
<1> QED
    BY <1>1, <1>2, <1>3, <1>5 DEF Pending

\* A buffer that becomes the batch being sent is invisible.
LEMMA FlushHidden ==
    ASSUME BatcherInv, sending = <<>>, sending' = buffer, buffer' = <<>>, input' = input
    PROVE  Pending' = Pending
<1>1. sending' \o buffer' = buffer /\ sending \o buffer = buffer
    BY PendingType, ConcatEmptySeq
<1> QED
    BY <1>1 DEF Pending

\* Sending a batch is emitting what the batch holds.
LEMMA SendEmits ==
    ASSUME BatcherInv, SendBatch
    PROVE  /\ Len(sending) \in 1..max_batch_size /\ Len(sending) <= Len(Pending)
           /\ Pending' = SubSeq(Pending, Len(sending) + 1, Len(Pending))
           /\ SubSeq(Pending, 1, Len(sending)) = sending
<1>1. /\ sending # <<>> /\ buffer = <<>> /\ buffer' = <<>> /\ input' = input
      /\ sending' = <<>> /\ Len(sending) <= max_batch_size
    BY DEF BatcherInv, TypeOK, Held, SendBatch
<1>2. Pending = sending \o input
    BY <1>1, PendingType, ConcatEmptySeq DEF Pending
<1>3. Pending' = input
    <2>1. <<>> \o <<>> = <<>>
        BY EmptySeq, ConcatEmptySeq
    <2> QED
        BY <1>1, <2>1, PendingType, ConcatEmptySeq DEF Pending
<1>4. /\ SubSeq(Pending, 1, Len(sending)) = sending
      /\ SubSeq(Pending, Len(sending) + 1, Len(Pending)) = input
    BY <1>2, PendingType, SplitConcat
<1>5. /\ Len(sending) \in Nat /\ Len(input) \in Nat /\ Len(sending) # 0
      /\ Len(Pending) = Len(sending) + Len(input)
    <2>1. Len(sending) \in Nat /\ Len(input) \in Nat
        BY PendingType, LenProperties
    <2>2. Len(sending) # 0
        BY <1>1, PendingType, EmptySeq
    <2> QED
        BY <1>2, <2>1, <2>2, PendingType, ConcatProperties
<1>6. Len(sending) \in 1..max_batch_size /\ Len(sending) <= Len(Pending)
    BY <1>1, <1>5, BatcherAssumption
<1> QED
    BY <1>3, <1>4, <1>6

\* Every step of the task is a step of the Coalescer, or invisible.
LEMMA RefinementStep ==
    ASSUME BatcherInv, [Next]_vars
    PROVE  [Promise!Next]_(Promise!vars)
<1> DEFINE Same == Pending' = Pending /\ output' = output /\ rx_open' = rx_open
<1>1. Same => UNCHANGED Promise!vars
    BY DEF Promise!vars, Pending
<1>2. ASSUME NEW m \in Messages, Enqueue(m) PROVE Promise!Next
    <2>1. Pending' = Append(Pending, m) /\ output' = output /\ rx_open' = rx_open
        BY <1>2, PendingType, AppendBehind DEF Enqueue, Pending
    <2>2. Promise!Accept(m)
        BY <2>1 DEF Promise!Accept, Pending
    <2> QED
        BY <2>2 DEF Promise!Next
<1>3. ASSUME Receive PROVE Same
    BY <1>3, ReceiveHidden DEF Receive
<1>4. ASSUME ReceiveNone PROVE Same
    <2>1. sending = <<>>
        BY <1>4 DEF ReceiveNone, BatcherInv, Held
    <2>2. CASE buffer # <<>>
        BY <1>4, <2>1, <2>2, FlushHidden DEF ReceiveNone, StartSending
    <2>3. CASE buffer = <<>>
        BY <1>4, <2>3 DEF ReceiveNone, Pending
    <2> QED
        BY <2>2, <2>3
<1>5. ASSUME TimeoutFlush PROVE Same
    <2>1. sending = <<>>
        BY <1>5 DEF TimeoutFlush, BatcherInv, Held
    <2> QED
        BY <1>5, <2>1, FlushHidden DEF TimeoutFlush, StartSending
<1>6. ASSUME SendBatch PROVE Promise!Next
    <2>1. Promise!Emit(Len(sending))
        BY <1>6, SendEmits DEF SendBatch, Promise!Emit, Pending
    <2>2. Len(sending) \in 1..max_batch_size
        BY <1>6, SendEmits
    <2> QED
        BY <2>1, <2>2 DEF Promise!Next, Promise!EmitSome
<1>7. ASSUME TakeBatch PROVE Promise!Next
    <2>1. Promise!Take
        BY <1>7 DEF TakeBatch, Promise!Take
    <2> QED
        BY <2>1 DEF Promise!Next
<1>8. ASSUME DropReceiver PROVE Promise!Next
    <2>1. Promise!StopListening
        BY <1>8 DEF DropReceiver, Promise!StopListening
    <2> QED
        BY <2>1 DEF Promise!Next
<1>9. ASSUME DropSender \/ Tick \/ UNCHANGED vars PROVE Same
    BY <1>9 DEF DropSender, Tick, vars, Pending
<1> QED
    BY <1>1, <1>2, <1>3, <1>4, <1>5, <1>6, <1>7, <1>8, <1>9 DEF Next, TaskStep

\* The batcher implements the Coalescer: messages leave in order, once each, in
\* batches of one to max_batch_size.
THEOREM BatcherRefinement == Spec => ImplementsCoalescer
<1>1. Init => Promise!Init
    <2> SUFFICES ASSUME Init PROVE Promise!Init
        OBVIOUS
    <2>1. sending \o buffer \o input = <<>>
        BY DEF Init
    <2> QED
        BY <2>1 DEF Init, Promise!Init
<1>2. BatcherInv /\ [Next]_vars => [Promise!Next]_(Promise!vars)
    BY RefinementStep
<1> QED
    BY <1>1, <1>2, BatcherInvariant, PTL DEF Spec, ImplementsCoalescer, Promise!Spec
=============================================================================
