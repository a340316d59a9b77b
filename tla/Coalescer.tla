----------------------------- MODULE Coalescer -----------------------------
(***************************************************************************)
(* What a batcher promises: messages leave in the order in which they were *)
(* accepted, each of them once, in batches of one to max_batch_size; a     *)
(* message is lost only when nobody listens any more.                      *)
(***************************************************************************)
EXTENDS Integers, Sequences

CONSTANTS Messages, max_batch_size

VARIABLES pending,    \* messages accepted and not in a batch yet
          out,        \* batches that wait for the consumer
          listening   \* the consumer still holds its end

vars == <<pending, out, listening>>

Init == pending = <<>> /\ out = <<>> /\ listening = TRUE

Accept(m) ==
    /\ pending' = Append(pending, m)
    /\ out' = out /\ listening' = listening

\* The first k messages become a batch, or are lost if nobody listens.
Emit(k) ==
    /\ k <= Len(pending)
    /\ pending' = SubSeq(pending, k + 1, Len(pending))
    /\ out' = IF listening THEN Append(out, SubSeq(pending, 1, k)) ELSE out
    /\ listening' = listening

Take ==
    /\ out # <<>>
    /\ out' = Tail(out)
    /\ pending' = pending /\ listening' = listening

StopListening ==
    /\ listening' = FALSE /\ out' = <<>>
    /\ UNCHANGED pending

EmitSome == \E k \in 1..max_batch_size : Emit(k)

Next ==
    \/ \E m \in Messages : Accept(m)
    \/ EmitSome \/ Take \/ StopListening

Spec == Init /\ [][Next]_vars

\* Messages do not stay: batches leave as long as there is something to put in one.
KeepsEmitting == []<>(pending = <<>>) \/ []<><<EmitSome>>_vars
=============================================================================
