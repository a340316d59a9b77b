---------------------------- MODULE ShardManager ----------------------------
(***************************************************************************)
(* The memory shards of src/src/sharding.rs: bounded lock-free channels, a *)
(* manager that holds the senders, and workers that own receivers.         *)
(*                                                                         *)
(* push() is a sequence of separate atomic accesses and is split at each   *)
(* of them; so are the loop of drain_shard and the loop of a worker.       *)
(*                                                                         *)
(* A shard that was evicted and created again has two channels: the one    *)
(* whose receiver a worker still owns, and the new one, whose receiver is  *)
(* in `receivers`.  tx[id] says which of them the sender in `shards` feeds.*)
(*                                                                         *)
(* A message is known by its place in the order in which channels accept   *)
(* messages: the n-th accepted message is n.                               *)
(***************************************************************************)
EXTENDS Integers, Sequences, FiniteSets, FiniteSetsExt, Functions

CONSTANTS Pushers,                \* threads that push
          num_shards, shard_size, \* ShardManager::new
          batch_size,             \* ShardWorker::run_batched
          Workers,                \* ids whose receiver is given to a worker
          MaxCalls,               \* bound: calls of push, push_spread, push_deadzone
          MaxAdmin                \* bound: evictions, creations and resets

ASSUME ShardAssumption ==
    /\ IsFiniteSet(Pushers) /\ Pushers # {}
    /\ num_shards \in Nat \ {0, 1}
    /\ shard_size \in Nat \ {0}
    /\ batch_size \in Nat \ {0}
    /\ Workers \subseteq 1..(num_shards - 1)
    /\ MaxCalls \in Nat /\ MaxAdmin \in Nat

VARIABLES tx,             \* tx[id]: the channel fed by the shard, or "none"
          owned,          \* owned[id]: the channel a worker reads
          managed,        \* managed[id]: the channel of receivers[id]
          receivers,      \* ids that have an entry in `receivers`
          total_regular_messages, round_robin,
          messages_allocated, messages_dropped,
          pc, target,     \* pc[p], target[p]: where pusher p is, and its shard
          worker, batch,  \* worker[id], batch[id]: the worker of a shard
          drain,          \* the call of drain_shard in progress
          missing,        \* missing[id]: calls of get_shard that found no shard id
          sent, done, lost, calls, admin  \* history and bounds

manager == <<tx, receivers, total_regular_messages, round_robin,
             messages_allocated, messages_dropped>>
threads == <<pc, target, worker, batch, drain, missing>>
vars == <<manager, owned, managed, threads, sent, done, lost, calls, admin>>

ShardId == 0..num_shards
deadzone_shard_id == 0
spread_shard_id == num_shards
Regular == 1..(num_shards - 1)
backpressure_limit == ((num_shards - 1) * shard_size * 8) \div 10

NotDraining == [id |-> deadzone_shard_id, active |-> FALSE, count |-> 0]

\* Messages in the regular shards.
Resident == MapThenSumSet(LAMBDA id : Len(owned[id]) + Len(managed[id]), Regular)

Goto(p, l) == pc' = [pc EXCEPT ![p] = l]

----------------------------------------------------------------------------
Init ==
    /\ tx = [id \in ShardId |-> "managed"]
    /\ owned = [id \in ShardId |-> <<>>]
    /\ managed = [id \in ShardId |-> <<>>]
    /\ receivers = ShardId
    /\ total_regular_messages = 0 /\ round_robin = 0
    /\ messages_allocated = 0 /\ messages_dropped = 0
    /\ pc = [p \in Pushers |-> "idle"]
    /\ target = [p \in Pushers |-> deadzone_shard_id]
    /\ worker = [id \in Regular |-> "none"]
    /\ batch = [id \in Regular |-> <<>>]
    /\ drain = NotDraining
    /\ missing = [id \in Regular |-> 0]
    /\ sent = 0 /\ done = {} /\ lost = {} /\ calls = 0 /\ admin = 0

(* push *)

\* The counter has reached the limit: Err(Backpressure).
RejectPush(p) ==
    /\ pc[p] = "idle" /\ calls < MaxCalls
    /\ total_regular_messages >= backpressure_limit
    /\ messages_dropped' = messages_dropped + 1
    /\ calls' = calls + 1
    /\ UNCHANGED <<tx, receivers, total_regular_messages, round_robin, messages_allocated,
                   owned, managed, threads, sent, done, lost, admin>>

\* Faulty variant of PassPush: lets one message too many through.
PassAtLimit(p) ==
    /\ pc[p] = "idle" /\ calls < MaxCalls
    /\ total_regular_messages <= backpressure_limit
    /\ Goto(p, "select")
    /\ calls' = calls + 1
    /\ UNCHANGED <<manager, owned, managed, target, worker, batch, drain, missing,
                   sent, done, lost, admin>>

\* The counter is below the limit.
PassPush(p) ==
    /\ pc[p] = "idle" /\ calls < MaxCalls
    /\ total_regular_messages < backpressure_limit
    /\ Goto(p, "select")
    /\ calls' = calls + 1
    /\ UNCHANGED <<manager, owned, managed, target, worker, batch, drain, missing,
                   sent, done, lost, admin>>

\* select_shard_for_message: round robin over the regular shards.
SelectShard(p) ==
    /\ pc[p] = "select"
    /\ target' = [target EXCEPT ![p] = 1 + (round_robin % (num_shards - 1))]
    /\ round_robin' = (round_robin + 1) % (num_shards - 1)
    /\ Goto(p, "allocate")
    /\ UNCHANGED <<tx, receivers, total_regular_messages, messages_allocated,
                   messages_dropped, owned, managed, worker, batch, drain, missing,
                   sent, done, lost, calls, admin>>

CountAllocated(p) ==
    /\ pc[p] = "allocate"
    /\ messages_allocated' = messages_allocated + 1
    /\ Goto(p, "send")
    /\ UNCHANGED <<tx, receivers, total_regular_messages, round_robin, messages_dropped,
                   owned, managed, target, worker, batch, drain, missing,
                   sent, done, lost, calls, admin>>

\* push_spread and push_deadzone start here: no backpressure gate.
PushReserved(p, id) ==
    /\ pc[p] = "idle" /\ calls < MaxCalls
    /\ target' = [target EXCEPT ![p] = id]
    /\ Goto(p, "allocate")
    /\ calls' = calls + 1
    /\ UNCHANGED <<manager, owned, managed, worker, batch, drain, missing,
                   sent, done, lost, admin>>

Channel(id) == IF tx[id] = "owned" THEN owned[id] ELSE managed[id]

\* Faulty variant of TrySend: the message enters at the front of the channel.
TrySendInFront(p) ==
    LET id == target[p]
        accepted == tx[id] # "none" /\ Len(Channel(id)) < shard_size
    IN  /\ pc[p] = "send"
        /\ messages_dropped' = IF tx[id] = "none" THEN messages_dropped + 1
                               ELSE messages_dropped
        /\ owned' = IF accepted /\ tx[id] = "owned"
                    THEN [owned EXCEPT ![id] = <<sent + 1>> \o @] ELSE owned
        /\ managed' = IF accepted /\ tx[id] = "managed"
                      THEN [managed EXCEPT ![id] = <<sent + 1>> \o @] ELSE managed
        /\ sent' = IF accepted THEN sent + 1 ELSE sent
        /\ Goto(p, IF accepted /\ id \in Regular THEN "count" ELSE "idle")
        /\ UNCHANGED <<tx, receivers, total_regular_messages, round_robin,
                       messages_allocated, target, worker, batch, drain, missing,
                       done, lost, calls, admin>>

\* try_send.  A shard that is not in `shards` is Err(NotFound) and counts as
\* dropped, a channel that is full is Err(Full) and does not.
TrySend(p) ==
    LET id == target[p]
        accepted == tx[id] # "none" /\ Len(Channel(id)) < shard_size
    IN  /\ pc[p] = "send"
        /\ messages_dropped' = IF tx[id] = "none" THEN messages_dropped + 1
                               ELSE messages_dropped
        /\ owned' = IF accepted /\ tx[id] = "owned"
                    THEN [owned EXCEPT ![id] = Append(@, sent + 1)] ELSE owned
        /\ managed' = IF accepted /\ tx[id] = "managed"
                      THEN [managed EXCEPT ![id] = Append(@, sent + 1)] ELSE managed
        /\ sent' = IF accepted THEN sent + 1 ELSE sent
        /\ Goto(p, IF accepted /\ id \in Regular THEN "count" ELSE "idle")
        /\ UNCHANGED <<tx, receivers, total_regular_messages, round_robin,
                       messages_allocated, target, worker, batch, drain, missing,
                       done, lost, calls, admin>>

CountRegular(p) ==
    /\ pc[p] = "count"
    /\ total_regular_messages' = total_regular_messages + 1
    /\ Goto(p, "idle")
    /\ UNCHANGED <<tx, receivers, round_robin, messages_allocated, messages_dropped,
                   owned, managed, target, worker, batch, drain, missing,
                   sent, done, lost, calls, admin>>

(* ShardWorker::run_batched *)

\* get_receiver: a worker takes the receiver of its shard out of the manager.
StartWorker(id) ==
    /\ id \in Workers \cap receivers
    /\ worker[id] = "none"
    /\ ~(drain.active /\ drain.id = id)
    /\ worker' = [worker EXCEPT ![id] = "recv"]
    /\ receivers' = receivers \ {id}
    /\ owned' = [owned EXCEPT ![id] = managed[id]]
    /\ managed' = [managed EXCEPT ![id] = <<>>]
    /\ tx' = [tx EXCEPT ![id] = IF @ = "managed" THEN "owned" ELSE @]
    /\ UNCHANGED <<total_regular_messages, round_robin, messages_allocated,
                   messages_dropped, pc, target, batch, drain, missing,
                   sent, done, lost, calls, admin>>

\* Faulty variant of WorkerRecv: the message stays in the channel.
WorkerPeek(id) ==
    /\ worker[id] \in {"recv", "greedy"}
    /\ owned[id] # <<>> /\ Len(batch[id]) < batch_size
    /\ batch' = [batch EXCEPT ![id] = Append(@, Head(owned[id]))]
    /\ worker' = [worker EXCEPT ![id] = "greedy"]
    /\ UNCHANGED <<manager, owned, managed, pc, target, drain, missing,
                   sent, done, lost, calls, admin>>

\* The blocking recv for the first message, then try_recv up to batch_size.
WorkerRecv(id) ==
    /\ worker[id] \in {"recv", "greedy"}
    /\ owned[id] # <<>> /\ Len(batch[id]) < batch_size
    /\ batch' = [batch EXCEPT ![id] = Append(@, Head(owned[id]))]
    /\ owned' = [owned EXCEPT ![id] = Tail(@)]
    /\ worker' = [worker EXCEPT ![id] = "greedy"]
    /\ UNCHANGED <<manager, managed, pc, target, drain, missing,
                   sent, done, lost, calls, admin>>

\* The batch is full or the channel is empty: the callback gets the batch.
WorkerCallback(id) ==
    /\ worker[id] = "greedy"
    /\ owned[id] = <<>> \/ Len(batch[id]) = batch_size
    /\ done' = done \cup Range(batch[id])
    /\ batch' = [batch EXCEPT ![id] = <<>>]
    /\ worker' = [worker EXCEPT ![id] = "recv"]
    /\ UNCHANGED <<manager, owned, managed, pc, target, drain, missing,
                   sent, lost, calls, admin>>

\* Faulty variant of WorkerExit: the worker ends as soon as its shard is evicted.
ExitOnEviction(id) ==
    /\ worker[id] = "recv"
    /\ tx[id] # "owned"
    /\ worker' = [worker EXCEPT ![id] = "exited"]
    /\ UNCHANGED <<manager, owned, managed, pc, target, batch, drain, missing,
                   sent, done, lost, calls, admin>>

\* recv() fails once the channel is empty and the shard that held the sender is gone.
WorkerExit(id) ==
    /\ worker[id] = "recv"
    /\ owned[id] = <<>> /\ tx[id] # "owned"
    /\ worker' = [worker EXCEPT ![id] = "exited"]
    /\ UNCHANGED <<manager, owned, managed, pc, target, batch, drain, missing,
                   sent, done, lost, calls, admin>>

(* drain_shard *)

DrainShard(id) ==
    /\ ~drain.active
    /\ id \in receivers
    /\ drain' = [id |-> id, active |-> TRUE, count |-> 0]
    /\ UNCHANGED <<manager, owned, managed, pc, target, worker, batch, missing,
                   sent, done, lost, calls, admin>>

DrainNext ==
    /\ drain.active /\ managed[drain.id] # <<>>
    /\ done' = done \cup {Head(managed[drain.id])}
    /\ managed' = [managed EXCEPT ![drain.id] = Tail(@)]
    /\ drain' = [drain EXCEPT !.count = @ + 1]
    /\ UNCHANGED <<manager, owned, pc, target, worker, batch, missing,
                   sent, lost, calls, admin>>

\* Faulty variant of DrainEnd: any drained shard reduces the counter of the regular ones.
DrainEndAnyShard ==
    /\ drain.active /\ managed[drain.id] = <<>>
    /\ total_regular_messages' = IF total_regular_messages > drain.count
                                 THEN total_regular_messages - drain.count ELSE 0
    /\ drain' = NotDraining
    /\ UNCHANGED <<tx, receivers, round_robin, messages_allocated, messages_dropped,
                   owned, managed, pc, target, worker, batch, missing,
                   sent, done, lost, calls, admin>>

\* The channel is empty: the counter is reduced by what was taken, down to zero.
DrainEnd ==
    /\ drain.active /\ managed[drain.id] = <<>>
    /\ total_regular_messages' =
           IF drain.id \notin Regular THEN total_regular_messages
           ELSE IF total_regular_messages > drain.count
           THEN total_regular_messages - drain.count ELSE 0
    /\ drain' = NotDraining
    /\ UNCHANGED <<tx, receivers, round_robin, messages_allocated, messages_dropped,
                   owned, managed, pc, target, worker, batch, missing,
                   sent, done, lost, calls, admin>>

(* Administration *)

\* evict_idle removes a regular shard.  retain() waits for the guard that push()
\* holds from shards.get() to its last access.  last_access is set when the shard
\* is created and never again: every shard is eventually idle, in use or not.
EvictIdle(id) ==
    /\ admin < MaxAdmin /\ admin' = admin + 1
    /\ id \in Regular /\ tx[id] # "none"
    /\ \A p \in Pushers : ~(pc[p] = "count" /\ target[p] = id)
    /\ tx' = [tx EXCEPT ![id] = "none"]
    /\ UNCHANGED <<receivers, total_regular_messages, round_robin, messages_allocated,
                   messages_dropped, owned, managed, threads, sent, done, lost, calls>>

\* get_shard finds no shard for the protocol ...
GetShardMiss(id) ==
    /\ admin < MaxAdmin /\ admin' = admin + 1
    /\ tx[id] = "none"
    /\ missing' = [missing EXCEPT ![id] = @ + 1]
    /\ UNCHANGED <<manager, owned, managed, pc, target, worker, batch, drain,
                   sent, done, lost, calls>>

\* ... and creates one.  The messages of a receiver that is replaced are gone.
CreateShard(id) ==
    /\ missing[id] > 0
    /\ missing' = [missing EXCEPT ![id] = @ - 1]
    /\ \A p \in Pushers : ~(pc[p] = "count" /\ target[p] = id)
    /\ ~(drain.active /\ drain.id = id)
    /\ tx' = [tx EXCEPT ![id] = "managed"]
    /\ receivers' = receivers \cup {id}
    /\ managed' = [managed EXCEPT ![id] = <<>>]
    /\ lost' = lost \cup Range(managed[id])
    /\ UNCHANGED <<total_regular_messages, round_robin, messages_allocated,
                   messages_dropped, owned, pc, target, worker, batch, drain,
                   sent, done, calls, admin>>

ResetLeakStats ==
    /\ admin < MaxAdmin /\ admin' = admin + 1
    /\ messages_allocated' = 0 /\ messages_dropped' = 0
    /\ UNCHANGED <<tx, receivers, total_regular_messages, round_robin,
                   owned, managed, threads, sent, done, lost, calls>>

PushStep(p) ==
    SelectShard(p) \/ CountAllocated(p) \/ TrySend(p) \/ CountRegular(p)

WorkerStep(id) == WorkerRecv(id) \/ WorkerCallback(id) \/ WorkerExit(id)

Next ==
    \/ \E p \in Pushers : RejectPush(p) \/ PassPush(p) \/ PushStep(p)
    \/ \E p \in Pushers, id \in {deadzone_shard_id, spread_shard_id} : PushReserved(p, id)
    \/ \E id \in Regular : StartWorker(id) \/ WorkerStep(id)
    \/ \E id \in ShardId : DrainShard(id)
    \/ DrainNext \/ DrainEnd
    \/ \E id \in Regular : EvictIdle(id) \/ GetShardMiss(id) \/ CreateShard(id)
    \/ ResetLeakStats

Spec == Init /\ [][Next]_vars

\* Threads that are in the middle of a call or of an iteration go on.
FairSpec ==
    /\ Spec
    /\ \A p \in Pushers : WF_vars(PushStep(p))
    /\ \A id \in Regular : WF_vars(StartWorker(id)) /\ WF_vars(WorkerStep(id))
    /\ WF_vars(DrainNext \/ DrainEnd)
----------------------------------------------------------------------------
(* Properties *)

\* Every variable keeps its type; no channel outgrows shard_size.
TypeOK ==
    /\ tx \in [ShardId -> {"owned", "managed", "none"}]
    /\ owned \in [ShardId -> Seq(Nat)] /\ managed \in [ShardId -> Seq(Nat)]
    /\ receivers \subseteq ShardId
    /\ total_regular_messages \in Nat /\ round_robin \in 0..(num_shards - 2)
    /\ messages_allocated \in Nat /\ messages_dropped \in Nat
    /\ pc \in [Pushers -> {"idle", "select", "allocate", "send", "count"}]
    /\ target \in [Pushers -> ShardId]
    /\ worker \in [Regular -> {"none", "recv", "greedy", "exited"}]
    /\ batch \in [Regular -> Seq(Nat)]
    /\ drain \in [id : ShardId, active : BOOLEAN, count : Nat]
    /\ missing \in [Regular -> Nat]
    /\ sent \in Nat /\ done \subseteq Nat /\ lost \subseteq Nat
    /\ calls \in 0..MaxCalls /\ admin \in 0..MaxAdmin

\* Pushers that passed the gate and have not been counted yet.
Passed == {p \in Pushers : pc[p] = "select" \/ (pc[p] # "idle" /\ target[p] \in Regular)}
Uncounted == {p \in Pushers : pc[p] = "count"}

\* Every message a channel accepted is in exactly one place: a channel, the batch of
\* a worker, handed over, or lost with a receiver that create_shard replaced.
EveryMessageOnce ==
    LET places == [id \in ShardId |-> Range(owned[id]) \cup Range(managed[id])
                                      \cup (IF id \in Regular THEN Range(batch[id]) ELSE {})]
    IN  /\ UNION Range(places) \cup done \cup lost = 1..sent
        /\ sent = Cardinality(done) + Cardinality(lost)
                  + MapThenSumSet(LAMBDA id : Len(owned[id]) + Len(managed[id]), ShardId)
                  + MapThenSumSet(LAMBDA id : Len(batch[id]), Regular)

Increasing(s) == \A i, j \in DOMAIN s : i < j => s[i] < s[j]

\* A worker sees the messages of its shard in the order they were accepted, and no
\* channel holds more than shard_size messages.
FifoPerShard ==
    /\ \A id \in Regular : Increasing(batch[id] \o owned[id])
    /\ \A id \in ShardId : Increasing(managed[id]) /\ Len(Channel(id)) <= shard_size

\* total_regular_messages is never too low: with the pushes that have not been
\* counted yet it covers every message in the regular shards, even while
\* drain_shard races with push.  If it were too low, the gate would open too late.
CounterCoversResident == Resident <= total_regular_messages + Cardinality(Uncounted)

\* The gate is a check that is acted on later: the counter can overshoot the limit,
\* but never by more than one message per thread.
OvershootBound ==
    total_regular_messages + Cardinality(Passed) < backpressure_limit + Cardinality(Pushers)

\* A message in a channel that a worker owns reaches the callback, even if the
\* shard is evicted meanwhile.
OwnedAreHandled ==
    \A n \in 1..MaxCalls :
        (\E id \in Regular : n \in Range(owned[id])) ~> n \in done

\* sharding.rs:116, "Backpressure fires at 80% of their combined capacity": a push
\* is rejected only while the regular shards hold that many messages.
BackpressureMeansLoaded ==
    [][\A p \in Pushers : RejectPush(p) => Resident >= backpressure_limit]_vars

=============================================================================
