------------------------- MODULE ShardManagerProofs -------------------------
(***************************************************************************)
(* For every number of threads, shards and messages: the backpressure gate *)
(* overshoots by less than one message per thread, and the channels are    *)
(* first-in first-out and bounded.                                         *)
(*                                                                         *)
(* OvershootBound is inductive together with CountedAreRegular; the order  *)
(* of a shard needs that all its messages are older than the next one      *)
(* (Ordered) and that a channel nobody owns is empty (Ownership).          *)
(***************************************************************************)
EXTENDS ShardManager, QueueTheorems, FiniteSetTheorems

CountedAreRegular == \A p \in Pushers : pc[p] = "count" => target[p] \in Regular

GateInv == TypeOK /\ CountedAreRegular /\ OvershootBound

\* The type invariant is inductive.
LEMMA ShardTypeStep ==
    ASSUME TypeOK, [Next]_vars
    PROVE  TypeOK'
<1> USE ShardAssumption
<1>1. ASSUME NEW p \in Pushers, RejectPush(p) PROVE TypeOK'
    BY <1>1 DEF RejectPush, threads, TypeOK
<1>2. ASSUME NEW p \in Pushers, PassPush(p) PROVE TypeOK'
    BY <1>2 DEF PassPush, Goto, manager, TypeOK
<1>3. ASSUME NEW p \in Pushers, SelectShard(p) PROVE TypeOK'
    <2>1. /\ round_robin % (num_shards - 1) \in 0..(num_shards - 2)
          /\ (round_robin + 1) % (num_shards - 1) \in 0..(num_shards - 2)
        BY DEF TypeOK
    <2>2. round_robin' \in 0..(num_shards - 2)
        BY <1>3, <2>1 DEF SelectShard
    <2>3. 1 + (round_robin % (num_shards - 1)) \in ShardId
        BY <2>1 DEF ShardId
    <2> QED
        BY <1>3, <2>2, <2>3 DEF SelectShard, Goto, TypeOK
<1>4. ASSUME NEW p \in Pushers, CountAllocated(p) PROVE TypeOK'
    BY <1>4 DEF CountAllocated, Goto, TypeOK
<1>5. ASSUME NEW p \in Pushers, TrySend(p) PROVE TypeOK'
    <2>1. sent + 1 \in Nat /\ target[p] \in ShardId
        BY DEF TypeOK
    <2>2. /\ owned' \in [ShardId -> Seq(Nat)] /\ managed' \in [ShardId -> Seq(Nat)]
        BY <1>5, <2>1 DEF TrySend, TypeOK
    <2>3. messages_dropped' \in Nat /\ sent' \in Nat
        BY <1>5 DEF TrySend, TypeOK
    <2> QED
        BY <1>5, <2>2, <2>3 DEF TrySend, Goto, TypeOK
<1>6. ASSUME NEW p \in Pushers, CountRegular(p) PROVE TypeOK'
    BY <1>6 DEF CountRegular, Goto, TypeOK
<1>7. ASSUME NEW p \in Pushers, NEW id \in {deadzone_shard_id, spread_shard_id},
             PushReserved(p, id)
      PROVE  TypeOK'
    <2>1. id \in ShardId
        BY DEF deadzone_shard_id, spread_shard_id, ShardId
    <2> QED
        BY <1>7, <2>1 DEF PushReserved, Goto, manager, TypeOK
<1>8. ASSUME NEW id \in Regular, StartWorker(id) PROVE TypeOK'
    <2>1. id \in ShardId
        BY DEF Regular, ShardId
    <2>2. tx' \in [ShardId -> {"owned", "managed", "none"}]
        BY <1>8, <2>1 DEF StartWorker, TypeOK
    <2>3. owned' \in [ShardId -> Seq(Nat)] /\ managed' \in [ShardId -> Seq(Nat)]
        BY <1>8, <2>1 DEF StartWorker, TypeOK
    <2>4. worker' \in [Regular -> {"none", "recv", "greedy", "exited"}]
        BY <1>8 DEF StartWorker, TypeOK
    <2> QED
        BY <1>8, <2>2, <2>3, <2>4 DEF StartWorker, TypeOK
<1>9. ASSUME NEW id \in Regular, WorkerRecv(id) PROVE TypeOK'
    <2>1. id \in ShardId
        BY DEF Regular, ShardId
    <2>2. Head(owned[id]) \in Nat /\ Tail(owned[id]) \in Seq(Nat)
        BY <1>9, <2>1, HeadTailProperties DEF WorkerRecv, TypeOK
    <2>3. batch' \in [Regular -> Seq(Nat)]
        BY <1>9, <2>2 DEF WorkerRecv, TypeOK
    <2>4. owned' \in [ShardId -> Seq(Nat)]
        BY <1>9, <2>1, <2>2 DEF WorkerRecv, TypeOK
    <2>5. worker' \in [Regular -> {"none", "recv", "greedy", "exited"}]
        BY <1>9 DEF WorkerRecv, TypeOK
    <2> QED
        BY <1>9, <2>3, <2>4, <2>5 DEF WorkerRecv, manager, TypeOK
<1>10. ASSUME NEW id \in Regular, WorkerCallback(id) PROVE TypeOK'
    <2>1. Range(batch[id]) \subseteq Nat
        BY DEF TypeOK, Range
    <2>2. batch' \in [Regular -> Seq(Nat)]
        BY <1>10 DEF WorkerCallback, TypeOK
    <2>3. worker' \in [Regular -> {"none", "recv", "greedy", "exited"}]
        BY <1>10 DEF WorkerCallback, TypeOK
    <2>4. done' \subseteq Nat
        BY <1>10, <2>1 DEF WorkerCallback, TypeOK
    <2> QED
        BY <1>10, <2>2, <2>3, <2>4 DEF WorkerCallback, manager, TypeOK
<1>11. ASSUME NEW id \in Regular, WorkerExit(id) PROVE TypeOK'
    BY <1>11 DEF WorkerExit, manager, TypeOK
<1>12. ASSUME NEW id \in ShardId, DrainShard(id) PROVE TypeOK'
    BY <1>12 DEF DrainShard, manager, TypeOK
<1>13. ASSUME DrainNext PROVE TypeOK'
    <2>1. drain.id \in ShardId /\ drain.count \in Nat
        BY DEF TypeOK
    <2>2. Head(managed[drain.id]) \in Nat /\ Tail(managed[drain.id]) \in Seq(Nat)
        BY <1>13, <2>1, HeadTailProperties DEF DrainNext, TypeOK
    <2>3. managed' \in [ShardId -> Seq(Nat)]
        BY <1>13, <2>1, <2>2 DEF DrainNext, TypeOK
    <2>4. done' \subseteq Nat
        BY <1>13, <2>2 DEF DrainNext, TypeOK
    <2>5. drain' \in [id : ShardId, active : BOOLEAN, count : Nat]
        <3> DEFINE d == drain
                   n == drain.count + 1
        <3>1. d \in [id : ShardId, active : BOOLEAN, count : Nat] /\ n \in Nat
            BY <2>1 DEF TypeOK
        <3>2. drain' = [d EXCEPT !.count = n]
            BY <1>13 DEF DrainNext
        <3> HIDE DEF d, n
        <3> QED
            BY <3>1, <3>2
    <2> QED
        BY <1>13, <2>3, <2>4, <2>5 DEF DrainNext, manager, TypeOK
<1>14. ASSUME DrainEnd PROVE TypeOK'
    <2>1. total_regular_messages' \in Nat
        BY <1>14 DEF DrainEnd, TypeOK
    <2>2. NotDraining \in [id : ShardId, active : BOOLEAN, count : Nat]
        BY DEF NotDraining, deadzone_shard_id, ShardId
    <2> QED
        BY <1>14, <2>1, <2>2 DEF DrainEnd, TypeOK
<1>15. ASSUME NEW id \in Regular, EvictIdle(id) PROVE TypeOK'
    <2>1. tx' = [tx EXCEPT ![id] = "none"] /\ admin' = admin + 1 /\ admin < MaxAdmin
        BY <1>15 DEF EvictIdle
    <2>2. tx' \in [ShardId -> {"owned", "managed", "none"}]
        BY <2>1 DEF TypeOK
    <2>3. admin' \in 0..MaxAdmin
        BY <2>1 DEF TypeOK
    <2> QED
        BY <1>15, <2>2, <2>3 DEF EvictIdle, threads, TypeOK
<1>16. ASSUME NEW id \in Regular, GetShardMiss(id) PROVE TypeOK'
    <2>1. missing' = [missing EXCEPT ![id] = @ + 1] /\ admin' = admin + 1 /\ admin < MaxAdmin
        BY <1>16 DEF GetShardMiss
    <2>2. missing' \in [Regular -> Nat]
        BY <2>1 DEF TypeOK
    <2>3. admin' \in 0..MaxAdmin
        BY <2>1 DEF TypeOK
    <2> QED
        BY <1>16, <2>2, <2>3 DEF GetShardMiss, manager, TypeOK
<1>17. ASSUME NEW id \in Regular, CreateShard(id) PROVE TypeOK'
    <2>1. id \in ShardId
        BY DEF Regular, ShardId
    <2>2. Range(managed[id]) \subseteq Nat
        <3>1. managed[id] \in Seq(Nat)
            BY <2>1 DEF TypeOK
        <3>2. \A i \in DOMAIN managed[id] : managed[id][i] \in Nat
            BY <3>1
        <3> QED
            BY <3>2 DEF Range
    <2>3. missing[id] - 1 \in Nat
        BY <1>17 DEF CreateShard, TypeOK
    <2>4. missing' \in [Regular -> Nat] /\ lost' \subseteq Nat
        BY <1>17, <2>2, <2>3 DEF CreateShard, TypeOK
    <2> QED
        BY <1>17, <2>1, <2>4 DEF CreateShard, TypeOK
<1>18. ASSUME ResetLeakStats PROVE TypeOK'
    BY <1>18 DEF ResetLeakStats, threads, TypeOK
<1>19. ASSUME UNCHANGED vars PROVE TypeOK'
    BY <1>19 DEF vars, manager, threads, TypeOK
<1> QED
    BY <1>1, <1>2, <1>3, <1>4, <1>5, <1>6, <1>7, <1>8, <1>9, <1>10, <1>11, <1>12,
       <1>13, <1>14, <1>15, <1>16, <1>17, <1>18, <1>19 DEF Next, PushStep, WorkerStep

----------------------------------------------------------------------------
(* The backpressure gate *)

\* The sets of threads the gate counts are finite.
LEMMA PassedFinite ==
    /\ IsFiniteSet(Passed) /\ Cardinality(Passed) \in Nat
    /\ Cardinality(Passed) <= Cardinality(Pushers) /\ Cardinality(Pushers) \in Nat
<1>1. Passed \subseteq Pushers
    BY DEF Passed
<1>2. IsFiniteSet(Passed) /\ Cardinality(Passed) <= Cardinality(Pushers)
    BY <1>1, FS_Subset, ShardAssumption
<1> QED
    BY <1>2, FS_CardinalityType, ShardAssumption

\* The same for the next state.
LEMMA PassedFiniteNext ==
    /\ IsFiniteSet(Passed') /\ Cardinality(Passed') \in Nat
    /\ Cardinality(Passed') <= Cardinality(Pushers)
<1>1. Passed' \subseteq Pushers
    BY DEF Passed
<1>2. IsFiniteSet(Passed') /\ Cardinality(Passed') <= Cardinality(Pushers)
    BY <1>1, FS_Subset, ShardAssumption
<1> QED
    BY <1>2, FS_CardinalityType

\* A step that lets nobody through the gate and counts nothing is harmless.
LEMMA GateNeutral ==
    ASSUME GateInv, Passed' \subseteq Passed,
           total_regular_messages \in Nat, total_regular_messages' \in Nat,
           total_regular_messages' <= total_regular_messages
    PROVE  OvershootBound'
<1>1. Cardinality(Passed') <= Cardinality(Passed)
    BY PassedFinite, FS_Subset
<1>2. backpressure_limit' = backpressure_limit
    BY DEF backpressure_limit
<1>3. backpressure_limit \in Int
    BY ShardAssumption DEF backpressure_limit
<1> QED
    BY <1>1, <1>2, <1>3, PassedFinite, PassedFiniteNext DEF GateInv, OvershootBound

\* GateInv survives every step.
LEMMA GateStep ==
    ASSUME GateInv, [Next]_vars
    PROVE  GateInv'
<1>1. TypeOK'
    BY ShardTypeStep DEF GateInv
<1>2. /\ total_regular_messages \in Nat /\ total_regular_messages' \in Nat
      /\ pc \in [Pushers -> {"idle", "select", "allocate", "send", "count"}]
      /\ target \in [Pushers -> ShardId]
    BY <1>1 DEF GateInv, TypeOK
<1>3. ASSUME UNCHANGED <<pc, target>>,
             total_regular_messages' <= total_regular_messages
      PROVE  CountedAreRegular' /\ OvershootBound'
    BY <1>2, <1>3, GateNeutral DEF GateInv, CountedAreRegular, Passed
<1>4. ASSUME NEW p \in Pushers, PassPush(p)
      PROVE  CountedAreRegular' /\ OvershootBound'
    <2>1. backpressure_limit \in Int /\ backpressure_limit' = backpressure_limit
        BY ShardAssumption DEF backpressure_limit
    <2>2. /\ total_regular_messages' = total_regular_messages
          /\ total_regular_messages < backpressure_limit
        BY <1>4 DEF PassPush, manager
    <2>3. OvershootBound'
        BY <1>2, <2>1, <2>2, PassedFinite, PassedFiniteNext DEF OvershootBound
    <2> QED
        BY <1>4, <2>3 DEF PassPush, Goto, GateInv, CountedAreRegular
<1>5. ASSUME NEW p \in Pushers, SelectShard(p)
      PROVE  CountedAreRegular' /\ OvershootBound'
    BY <1>2, <1>5, GateNeutral DEF SelectShard, Goto, GateInv, CountedAreRegular, Passed
<1>6. ASSUME NEW p \in Pushers, CountAllocated(p)
      PROVE  CountedAreRegular' /\ OvershootBound'
    BY <1>2, <1>6, GateNeutral DEF CountAllocated, Goto, GateInv, CountedAreRegular, Passed
<1>7. ASSUME NEW p \in Pushers, TrySend(p)
      PROVE  CountedAreRegular' /\ OvershootBound'
    <2>1. /\ pc[p] = "send" /\ UNCHANGED <<target, total_regular_messages>>
          /\ \/ pc' = [pc EXCEPT ![p] = "idle"]
             \/ pc' = [pc EXCEPT ![p] = "count"] /\ target[p] \in Regular
        BY <1>7 DEF TrySend, Goto
    <2>2. Passed' \subseteq Passed
        BY <1>2, <2>1 DEF Passed
    <2>3. CountedAreRegular'
        BY <1>2, <2>1 DEF GateInv, CountedAreRegular
    <2> QED
        BY <1>2, <2>1, <2>2, <2>3, GateNeutral
<1>8. ASSUME NEW p \in Pushers, CountRegular(p)
      PROVE  CountedAreRegular' /\ OvershootBound'
    <2>1. /\ pc[p] = "count" /\ target' = target
          /\ pc' = [pc EXCEPT ![p] = "idle"]
          /\ total_regular_messages' = total_regular_messages + 1
        BY <1>8 DEF CountRegular, Goto
    <2>2. p \in Passed
        BY <2>1 DEF Passed, GateInv, CountedAreRegular
    <2>3. Passed' = Passed \ {p}
        BY <1>2, <2>1, <2>2 DEF Passed
    <2>4. Cardinality(Passed') = Cardinality(Passed) - 1
        BY <2>2, <2>3, PassedFinite, FS_RemoveElement
    <2>5. backpressure_limit \in Int /\ backpressure_limit' = backpressure_limit
        BY ShardAssumption DEF backpressure_limit
    <2>6. OvershootBound'
        BY <1>2, <2>1, <2>4, <2>5, PassedFinite DEF GateInv, OvershootBound
    <2>7. CountedAreRegular'
        BY <1>2, <2>1 DEF GateInv, CountedAreRegular
    <2> QED
        BY <2>6, <2>7
<1>9. ASSUME NEW p \in Pushers, NEW id \in {deadzone_shard_id, spread_shard_id},
             PushReserved(p, id)
      PROVE  CountedAreRegular' /\ OvershootBound'
    <2>1. id \notin Regular
        BY ShardAssumption DEF deadzone_shard_id, spread_shard_id, Regular
    <2>2. /\ pc' = [pc EXCEPT ![p] = "allocate"]
          /\ target' = [target EXCEPT ![p] = id]
          /\ total_regular_messages' = total_regular_messages
        BY <1>9 DEF PushReserved, Goto, manager
    <2>3. Passed' \subseteq Passed
        BY <1>2, <2>1, <2>2 DEF Passed
    <2>4. CountedAreRegular'
        BY <1>2, <2>2 DEF GateInv, CountedAreRegular
    <2> QED
        BY <1>2, <2>2, <2>3, <2>4, GateNeutral
<1>10. ASSUME DrainEnd PROVE CountedAreRegular' /\ OvershootBound'
    <2>1. drain.count \in Nat
        BY DEF GateInv, TypeOK
    <2>2. total_regular_messages' <= total_regular_messages
        BY <1>2, <1>10, <2>1 DEF DrainEnd
    <2> QED
        BY <1>3, <1>10, <2>2 DEF DrainEnd
<1>11. ASSUME \/ \E p \in Pushers : RejectPush(p)
              \/ \E id \in Regular : StartWorker(id) \/ WorkerStep(id)
              \/ \E id \in ShardId : DrainShard(id)
              \/ DrainNext
              \/ \E id \in Regular : EvictIdle(id) \/ GetShardMiss(id) \/ CreateShard(id)
              \/ ResetLeakStats
              \/ UNCHANGED vars
       PROVE  CountedAreRegular' /\ OvershootBound'
    <2>1. UNCHANGED <<pc, target, total_regular_messages>>
        BY <1>11 DEF RejectPush, StartWorker, WorkerStep, WorkerRecv, WorkerCallback,
                     WorkerExit, DrainShard, DrainNext, EvictIdle, GetShardMiss,
                     CreateShard, ResetLeakStats, vars, manager, threads
    <2> QED
        BY <1>2, <1>3, <2>1
<1> QED
    BY <1>1, <1>4, <1>5, <1>6, <1>7, <1>8, <1>9, <1>10, <1>11
    DEF Next, PushStep, GateInv

\* Every thread that passed the gate and every counted message fit below the limit
\* plus one message per thread, for any number of threads and shards.
THEOREM ShardOvershoot == Spec => []OvershootBound
<1>1. Init => GateInv
    <2> SUFFICES ASSUME Init PROVE GateInv
        OBVIOUS
    <2>1. TypeOK /\ CountedAreRegular
        BY ShardAssumption DEF Init, TypeOK, NotDraining, deadzone_shard_id, ShardId,
                               CountedAreRegular
    <2>2. Passed = {} /\ total_regular_messages = 0
        BY DEF Init, Passed
    <2>3. backpressure_limit \in Nat
        BY ShardAssumption DEF backpressure_limit
    <2>4. Cardinality(Pushers) \in Nat /\ Cardinality(Pushers) # 0
        BY ShardAssumption, FS_CardinalityType, FS_EmptySet
    <2>5. OvershootBound
        BY <2>2, <2>3, <2>4, FS_EmptySet DEF OvershootBound
    <2> QED
        BY <2>1, <2>5 DEF GateInv
<1>2. GateInv => OvershootBound
    BY DEF GateInv
<1> QED
    BY <1>1, <1>2, GateStep, PTL DEF Spec

----------------------------------------------------------------------------
(* The order of messages in a shard *)

UpTo(s, n) == \A i \in DOMAIN s : s[i] <= n

Ordered(s, n) == Increasing(s) /\ UpTo(s, n)

\* A channel that no worker owns is empty and nothing is sent to it.
Ownership ==
    \A id \in ShardId :
        \/ id \in Regular /\ worker[id] # "none"
        \/ tx[id] # "owned" /\ owned[id] = <<>>

FifoInv ==
    /\ TypeOK
    /\ Ownership
    /\ \A id \in Regular : /\ Ordered(batch[id] \o owned[id], sent)
                           /\ worker[id] = "none" => batch[id] = <<>>
    /\ \A id \in ShardId : /\ Ordered(managed[id], sent)
                           /\ Len(managed[id]) <= shard_size
                           /\ Len(owned[id]) <= shard_size

\* The next message comes after all the others.
LEMMA OrderedAppend ==
    ASSUME NEW s \in Seq(Nat), NEW n \in Nat, Ordered(s, n)
    PROVE  Ordered(Append(s, n + 1), n + 1)
<1> DEFINE t == Append(s, n + 1)
<1>1. /\ Len(s) \in Nat /\ DOMAIN s = 1..Len(s)
      /\ DOMAIN t = 1..(Len(s) + 1)
      /\ \A i \in 1..Len(s) : t[i] = s[i] /\ t[i] \in Nat
      /\ t[Len(s) + 1] = n + 1
    OBVIOUS
<1> HIDE DEF t
<1>2. \A i \in DOMAIN t : i # Len(s) + 1 => i \in DOMAIN s /\ t[i] = s[i] /\ t[i] <= n
    BY <1>1 DEF Ordered, UpTo
<1>3. UpTo(t, n + 1)
    BY <1>1, <1>2 DEF UpTo
<1>4. Increasing(t)
    <2> SUFFICES ASSUME NEW i \in DOMAIN t, NEW j \in DOMAIN t, i < j
                 PROVE  t[i] < t[j]
        BY DEF Increasing
    <2>1. i # Len(s) + 1
        BY <1>1
    <2>2. CASE j = Len(s) + 1
        BY <1>1, <1>2, <2>1, <2>2
    <2>3. CASE j # Len(s) + 1
        BY <1>2, <2>1, <2>3 DEF Ordered, Increasing
    <2> QED
        BY <2>2, <2>3
<1> QED
    BY <1>3, <1>4 DEF Ordered, t

\* Any tail of an ordered sequence is ordered.
LEMMA OrderedSuffix ==
    ASSUME NEW a \in Seq(Nat), NEW b \in Seq(Nat), NEW n \in Nat, Ordered(a \o b, n)
    PROVE  Ordered(b, n)
<1> DEFINE c == a \o b
<1>1. /\ Len(a) \in Nat /\ Len(b) \in Nat
      /\ DOMAIN b = 1..Len(b) /\ DOMAIN c = 1..(Len(a) + Len(b))
      /\ \A i \in 1..Len(b) : b[i] = c[Len(a) + i]
    OBVIOUS
<1>2. \A i \in DOMAIN b : Len(a) + i \in DOMAIN c /\ b[i] = c[Len(a) + i]
    BY <1>1
<1> HIDE DEF c
<1>3. \A i, j \in DOMAIN b : i < j => Len(a) + i < Len(a) + j
    BY <1>1
<1> QED
    BY <1>2, <1>3 DEF c, Ordered, Increasing, UpTo

\* A later bound still bounds.
LEMMA OrderedLater ==
    ASSUME NEW s \in Seq(Nat), NEW n \in Nat, Ordered(s, n)
    PROVE  Ordered(s, n + 1)
<1>1. \A i \in DOMAIN s : s[i] \in Nat
    OBVIOUS
<1> QED
    BY <1>1 DEF Ordered, UpTo

\* FifoInv survives every step.
LEMMA FifoStep ==
    ASSUME FifoInv, [Next]_vars
    PROVE  FifoInv'
<1>1. TypeOK'
    BY ShardTypeStep DEF FifoInv
<1>2. /\ tx \in [ShardId -> {"owned", "managed", "none"}]
      /\ owned \in [ShardId -> Seq(Nat)] /\ managed \in [ShardId -> Seq(Nat)]
      /\ batch \in [Regular -> Seq(Nat)]
      /\ worker \in [Regular -> {"none", "recv", "greedy", "exited"}]
      /\ sent \in Nat
      /\ Regular \subseteq ShardId
    <2>1. Regular \subseteq ShardId
        BY ShardAssumption DEF Regular, ShardId
    <2> QED
        BY <2>1 DEF FifoInv, TypeOK
<1>3. ASSUME UNCHANGED <<tx, owned, managed, batch, worker, sent>> PROVE FifoInv'
    <2>1. Ownership'
        BY <1>3 DEF FifoInv, Ownership
    <2> QED
        BY <1>1, <1>3, <2>1 DEF FifoInv
<1>4. ASSUME NEW p \in Pushers, TrySend(p) PROVE FifoInv'
    <2> DEFINE id == target[p]
    <2>0. id \in ShardId
        BY DEF FifoInv, TypeOK
    <2>1. UNCHANGED <<tx, batch, worker>>
        BY <1>4 DEF TrySend
    <2>2. CASE UNCHANGED <<owned, managed, sent>>
        BY <1>3, <2>1, <2>2
    <2>3. CASE /\ tx[id] = "owned" /\ Len(owned[id]) < shard_size
               /\ owned' = [owned EXCEPT ![id] = Append(owned[id], sent + 1)]
               /\ managed' = managed /\ sent' = sent + 1
        <3>1. id \in Regular /\ worker[id] # "none"
            BY <2>0, <2>3 DEF FifoInv, Ownership
        <3>2. Ownership'
            BY <1>2, <2>1, <2>3, <3>1 DEF FifoInv, Ownership
        <3>3. ASSUME NEW i \in Regular
              PROVE  /\ Ordered(batch'[i] \o owned'[i], sent')
                     /\ worker'[i] = "none" => batch'[i] = <<>>
            <4>1. /\ batch[i] \in Seq(Nat) /\ owned[i] \in Seq(Nat)
                  /\ batch[i] \o owned[i] \in Seq(Nat)
                  /\ Ordered(batch[i] \o owned[i], sent)
                BY <1>2 DEF FifoInv
            <4>2. CASE i = id
                <5>1. owned'[i] = Append(owned[i], sent + 1) /\ batch'[i] = batch[i]
                    BY <1>2, <2>1, <2>3, <4>2
                <5>2. batch[i] \o Append(owned[i], sent + 1)
                          = Append(batch[i] \o owned[i], sent + 1)
                    BY <1>2, <4>1, AppendBehind
                <5> QED
                    BY <1>2, <2>1, <2>3, <4>1, <5>1, <5>2, OrderedAppend DEF FifoInv
            <4>3. CASE i # id
                <5>1. owned'[i] = owned[i] /\ batch'[i] = batch[i]
                    BY <1>2, <2>1, <2>3, <4>3
                <5> QED
                    BY <1>2, <2>1, <2>3, <4>1, <5>1, OrderedLater DEF FifoInv
            <4> QED
                BY <4>2, <4>3
        <3>4. ASSUME NEW i \in ShardId
              PROVE  /\ Ordered(managed'[i], sent')
                     /\ Len(managed'[i]) <= shard_size /\ Len(owned'[i]) <= shard_size
            <4>1. Ordered(managed'[i], sent')
                BY <1>2, <2>3, OrderedLater DEF FifoInv
            <4>2. Len(owned'[i]) <= shard_size
                BY <1>2, <2>3, ShardAssumption DEF FifoInv
            <4> QED
                BY <2>3, <4>1, <4>2 DEF FifoInv
        <3> QED
            BY <1>1, <3>2, <3>3, <3>4 DEF FifoInv
    <2>4. CASE /\ tx[id] = "managed" /\ Len(managed[id]) < shard_size
               /\ managed' = [managed EXCEPT ![id] = Append(managed[id], sent + 1)]
               /\ owned' = owned /\ sent' = sent + 1
        <3>1. Ownership'
            BY <2>1, <2>4 DEF FifoInv, Ownership
        <3>2. ASSUME NEW i \in Regular
              PROVE  /\ Ordered(batch'[i] \o owned'[i], sent')
                     /\ worker'[i] = "none" => batch'[i] = <<>>
            <4>1. batch[i] \o owned[i] \in Seq(Nat)
                BY <1>2
            <4> QED
                BY <1>2, <2>1, <2>4, <4>1, OrderedLater DEF FifoInv
        <3>3. ASSUME NEW i \in ShardId
              PROVE  /\ Ordered(managed'[i], sent')
                     /\ Len(managed'[i]) <= shard_size /\ Len(owned'[i]) <= shard_size
            <4>1. CASE i = id
                <5>1. managed'[i] = Append(managed[i], sent + 1)
                    BY <1>2, <2>4, <4>1
                <5>2. Ordered(managed'[i], sent')
                    BY <1>2, <2>4, <5>1, OrderedAppend DEF FifoInv
                <5>3. Len(managed'[i]) <= shard_size
                    BY <1>2, <2>4, <4>1, <5>1, ShardAssumption
                <5> QED
                    BY <2>4, <5>2, <5>3 DEF FifoInv
            <4>2. CASE i # id
                <5>1. managed'[i] = managed[i]
                    BY <1>2, <2>4, <4>2
                <5> QED
                    BY <1>2, <2>4, <5>1, OrderedLater DEF FifoInv
            <4> QED
                BY <4>1, <4>2
        <3> QED
            BY <1>1, <3>1, <3>2, <3>3 DEF FifoInv
    <2> QED
        <3>1. CASE tx[id] = "none"
            BY <1>4, <2>2, <3>1 DEF TrySend
        <3>2. CASE tx[id] = "owned"
            <4>1. CASE Len(owned[id]) < shard_size
                BY <1>4, <2>3, <3>2, <4>1 DEF TrySend, Channel
            <4>2. CASE ~(Len(owned[id]) < shard_size)
                BY <1>4, <2>2, <3>2, <4>2 DEF TrySend, Channel
            <4> QED
                BY <4>1, <4>2
        <3>3. CASE tx[id] = "managed"
            <4>1. CASE Len(managed[id]) < shard_size
                BY <1>4, <2>4, <3>3, <4>1 DEF TrySend, Channel
            <4>2. CASE ~(Len(managed[id]) < shard_size)
                BY <1>4, <2>2, <3>3, <4>2 DEF TrySend, Channel
            <4> QED
                BY <4>1, <4>2
        <3> QED
            BY <1>2, <2>0, <3>1, <3>2, <3>3
<1>5. ASSUME NEW id \in Regular, StartWorker(id) PROVE FifoInv'
    <2>1. /\ worker[id] = "none" /\ batch' = batch /\ sent' = sent
          /\ worker' = [worker EXCEPT ![id] = "recv"]
          /\ owned' = [owned EXCEPT ![id] = managed[id]]
          /\ managed' = [managed EXCEPT ![id] = <<>>]
          /\ tx' = [tx EXCEPT ![id] = IF tx[id] = "managed" THEN "owned" ELSE tx[id]]
        BY <1>5 DEF StartWorker
    <2>2. Ownership'
        BY <1>2, <2>1 DEF FifoInv, Ownership
    <2>3. ASSUME NEW i \in Regular
          PROVE  /\ Ordered(batch'[i] \o owned'[i], sent')
                 /\ worker'[i] = "none" => batch'[i] = <<>>
        <3>1. CASE i = id
            <4>1. batch'[i] = <<>> /\ owned'[i] = managed[i] /\ managed[i] \in Seq(Nat)
                BY <1>2, <2>1, <3>1 DEF FifoInv
            <4>2. batch'[i] \o owned'[i] = managed[i]
                BY <4>1, ConcatEmptySeq
            <4> QED
                BY <1>2, <2>1, <4>1, <4>2 DEF FifoInv
        <3>2. CASE i # id
            BY <1>2, <2>1, <3>2 DEF FifoInv
        <3> QED
            BY <3>1, <3>2
    <2>4. ASSUME NEW i \in ShardId
          PROVE  /\ Ordered(managed'[i], sent')
                 /\ Len(managed'[i]) <= shard_size /\ Len(owned'[i]) <= shard_size
        <3>1. CASE i = id
            <4>1. managed'[i] = <<>> /\ owned'[i] = managed[i] /\ Len(managed[i]) <= shard_size
                BY <1>2, <2>1, <3>1 DEF FifoInv
            <4> QED
                BY <4>1, ShardAssumption DEF Ordered, Increasing, UpTo
        <3>2. CASE i # id
            BY <1>2, <2>1, <3>2 DEF FifoInv
        <3> QED
            BY <3>1, <3>2
    <2> QED
        BY <1>1, <2>2, <2>3, <2>4 DEF FifoInv
<1>6. ASSUME NEW id \in Regular, WorkerRecv(id) PROVE FifoInv'
    <2>1. /\ worker[id] # "none" /\ owned[id] # <<>>
          /\ UNCHANGED <<managed, sent, tx>>
          /\ worker' = [worker EXCEPT ![id] = "greedy"]
          /\ batch' = [batch EXCEPT ![id] = Append(batch[id], Head(owned[id]))]
          /\ owned' = [owned EXCEPT ![id] = Tail(owned[id])]
        BY <1>6 DEF WorkerRecv, manager
    <2>2. Ownership'
        BY <1>2, <2>1 DEF FifoInv, Ownership
    <2>3. ASSUME NEW i \in Regular
          PROVE  /\ Ordered(batch'[i] \o owned'[i], sent')
                 /\ worker'[i] = "none" => batch'[i] = <<>>
        <3>1. CASE i = id
            <4>1. /\ batch'[i] = Append(batch[i], Head(owned[i]))
                  /\ owned'[i] = Tail(owned[i]) /\ worker'[i] = "greedy"
                BY <1>2, <2>1, <3>1
            <4>2. batch[i] \in Seq(Nat) /\ owned[i] \in Seq(Nat) /\ owned[i] # <<>>
                BY <1>2, <2>1, <3>1
            <4>3. batch'[i] \o owned'[i] = batch[i] \o owned[i]
                BY <4>1, <4>2, MoveHead
            <4> QED
                BY <2>1, <4>1, <4>3 DEF FifoInv
        <3>2. CASE i # id
            BY <1>2, <2>1, <3>2 DEF FifoInv
        <3> QED
            BY <3>1, <3>2
    <2>4. ASSUME NEW i \in ShardId
          PROVE  /\ Ordered(managed'[i], sent')
                 /\ Len(managed'[i]) <= shard_size /\ Len(owned'[i]) <= shard_size
        <3>1. CASE i = id
            <4>1. /\ owned[i] \in Seq(Nat) /\ owned[i] # <<>> /\ owned'[i] = Tail(owned[i])
                  /\ Len(owned[i]) <= shard_size
                BY <1>2, <2>1, <3>1 DEF FifoInv
            <4>2. Len(Tail(owned[i])) = Len(owned[i]) - 1 /\ Len(owned[i]) \in Nat
                BY <4>1
            <4> QED
                BY <2>1, <4>1, <4>2, ShardAssumption DEF FifoInv
        <3>2. CASE i # id
            BY <1>2, <2>1, <3>2 DEF FifoInv
        <3> QED
            BY <3>1, <3>2
    <2> QED
        BY <1>1, <2>2, <2>3, <2>4 DEF FifoInv
<1>7. ASSUME NEW id \in Regular, WorkerCallback(id) PROVE FifoInv'
    <2>1. /\ worker[id] # "none"
          /\ UNCHANGED <<owned, managed, sent, tx>>
          /\ worker' = [worker EXCEPT ![id] = "recv"]
          /\ batch' = [batch EXCEPT ![id] = <<>>]
        BY <1>7 DEF WorkerCallback, manager
    <2>2. Ownership'
        BY <1>2, <2>1 DEF FifoInv, Ownership
    <2>3. ASSUME NEW i \in Regular
          PROVE  /\ Ordered(batch'[i] \o owned'[i], sent')
                 /\ worker'[i] = "none" => batch'[i] = <<>>
        <3>1. CASE i = id
            <4>1. batch[i] \in Seq(Nat) /\ owned[i] \in Seq(Nat) /\ batch'[i] = <<>>
                BY <1>2, <2>1, <3>1
            <4>2. batch'[i] \o owned'[i] = owned[i]
                BY <2>1, <4>1, ConcatEmptySeq
            <4>3. Ordered(owned[i], sent)
                BY <1>2, <4>1, OrderedSuffix DEF FifoInv
            <4> QED
                BY <2>1, <4>1, <4>2, <4>3
        <3>2. CASE i # id
            BY <1>2, <2>1, <3>2 DEF FifoInv
        <3> QED
            BY <3>1, <3>2
    <2> QED
        BY <1>1, <2>1, <2>2, <2>3 DEF FifoInv
<1>8. ASSUME NEW id \in Regular, WorkerExit(id) PROVE FifoInv'
    <2>1. /\ worker[id] # "none"
          /\ UNCHANGED <<owned, managed, batch, sent, tx>>
          /\ worker' = [worker EXCEPT ![id] = "exited"]
        BY <1>8 DEF WorkerExit, manager
    <2>2. Ownership'
        BY <1>2, <2>1 DEF FifoInv, Ownership
    <2> QED
        BY <1>1, <1>2, <2>1, <2>2 DEF FifoInv
<1>9. ASSUME DrainNext PROVE FifoInv'
    <2> DEFINE id == drain.id
    <2>0. id \in ShardId
        BY DEF FifoInv, TypeOK
    <2>1. /\ managed[id] # <<>>
          /\ managed' = [managed EXCEPT ![id] = Tail(managed[id])]
          /\ UNCHANGED <<owned, sent, tx, batch, worker>>
        BY <1>9 DEF DrainNext, manager
    <2>2. Ownership'
        BY <2>1 DEF FifoInv, Ownership
    <2>3. ASSUME NEW i \in ShardId
          PROVE  Ordered(managed'[i], sent') /\ Len(managed'[i]) <= shard_size
        <3>1. CASE i = id
            <4>1. /\ managed[i] \in Seq(Nat) /\ managed[i] # <<>>
                  /\ managed'[i] = Tail(managed[i])
                  /\ Ordered(managed[i], sent) /\ Len(managed[i]) <= shard_size
                BY <1>2, <2>1, <3>1 DEF FifoInv
            <4>2. /\ Head(managed[i]) \in Nat /\ Tail(managed[i]) \in Seq(Nat)
                  /\ managed[i] = <<Head(managed[i])>> \o Tail(managed[i])
                  /\ <<Head(managed[i])>> \in Seq(Nat)
                BY <4>1, HeadTailProperties
            <4>3. Ordered(Tail(managed[i]), sent)
                BY <1>2, <4>1, <4>2, OrderedSuffix
            <4>4. Len(Tail(managed[i])) = Len(managed[i]) - 1 /\ Len(managed[i]) \in Nat
                BY <4>1
            <4> QED
                BY <2>1, <4>1, <4>3, <4>4, ShardAssumption
        <3>2. CASE i # id
            BY <1>2, <2>1, <3>2 DEF FifoInv
        <3> QED
            BY <3>1, <3>2
    <2> QED
        BY <1>1, <2>1, <2>2, <2>3 DEF FifoInv
<1>10. ASSUME NEW id \in Regular, EvictIdle(id) PROVE FifoInv'
    <2>1. /\ tx' = [tx EXCEPT ![id] = "none"]
          /\ UNCHANGED <<owned, managed, sent, batch, worker>>
        BY <1>10 DEF EvictIdle, threads
    <2>2. Ownership'
        BY <1>2, <2>1 DEF FifoInv, Ownership
    <2> QED
        BY <1>1, <2>1, <2>2 DEF FifoInv
<1>11. ASSUME NEW id \in Regular, CreateShard(id) PROVE FifoInv'
    <2>1. /\ tx' = [tx EXCEPT ![id] = "managed"]
          /\ managed' = [managed EXCEPT ![id] = <<>>]
          /\ UNCHANGED <<owned, sent, batch, worker>>
        BY <1>11 DEF CreateShard
    <2>2. Ownership'
        BY <1>2, <2>1 DEF FifoInv, Ownership
    <2>3. ASSUME NEW i \in ShardId
          PROVE  Ordered(managed'[i], sent') /\ Len(managed'[i]) <= shard_size
        <3>1. CASE i = id
            BY <1>2, <2>1, <3>1, ShardAssumption DEF Ordered, Increasing, UpTo
        <3>2. CASE i # id
            BY <1>2, <2>1, <3>2 DEF FifoInv
        <3> QED
            BY <3>1, <3>2
    <2> QED
        BY <1>1, <2>1, <2>2, <2>3 DEF FifoInv
<1>12. ASSUME \/ \E p \in Pushers : \/ RejectPush(p) \/ PassPush(p) \/ SelectShard(p)
                                    \/ CountAllocated(p) \/ CountRegular(p)
              \/ \E p \in Pushers, id \in {deadzone_shard_id, spread_shard_id} :
                     PushReserved(p, id)
              \/ \E id \in ShardId : DrainShard(id)
              \/ DrainEnd
              \/ \E id \in Regular : GetShardMiss(id)
              \/ ResetLeakStats
              \/ UNCHANGED vars
       PROVE  FifoInv'
    <2>1. UNCHANGED <<tx, owned, managed, batch, worker, sent>>
        BY <1>12 DEF RejectPush, PassPush, SelectShard, CountAllocated, CountRegular,
                     PushReserved, DrainShard, DrainEnd, GetShardMiss, ResetLeakStats,
                     vars, manager, threads
    <2> QED
        BY <1>3, <2>1
<1> QED
    BY <1>4, <1>5, <1>6, <1>7, <1>8, <1>9, <1>10, <1>11, <1>12
    DEF Next, PushStep, WorkerStep

\* Workers and drainers see the messages of a shard in the order they were
\* accepted, and no channel outgrows shard_size, whatever is evicted or created.
THEOREM ShardFifo == Spec => []FifoPerShard
<1>1. Init => FifoInv
    <2> SUFFICES ASSUME Init PROVE FifoInv
        OBVIOUS
    <2>1. TypeOK
        BY ShardAssumption DEF Init, TypeOK, NotDraining, deadzone_shard_id, ShardId
    <2>2. Ordered(<<>>, sent)
        BY DEF Ordered, Increasing, UpTo
    <2>3. <<>> \o <<>> = <<>> /\ Len(<<>>) = 0
        OBVIOUS
    <2>4. \A id \in Regular : id \in ShardId
        BY ShardAssumption DEF Regular, ShardId
    <2>5. /\ \A id \in ShardId : managed[id] = <<>> /\ owned[id] = <<>> /\ tx[id] = "managed"
          /\ \A id \in Regular : batch[id] = <<>>
        BY DEF Init
    <2>6. Ownership
        BY <2>5 DEF Ownership
    <2>7. \A id \in Regular : batch[id] \o owned[id] = <<>>
        BY <2>3, <2>4, <2>5
    <2>8. \A id \in ShardId : Len(managed[id]) <= shard_size /\ Len(owned[id]) <= shard_size
        BY <2>3, <2>5, ShardAssumption
    <2> QED
        BY <2>1, <2>2, <2>5, <2>6, <2>7, <2>8 DEF FifoInv
<1>2. FifoInv => FifoPerShard
    BY DEF FifoInv, FifoPerShard, Ordered, Channel
<1> QED
    BY <1>1, <1>2, FifoStep, PTL DEF Spec

\* Every reachable state of the shards is well typed.
THEOREM ShardTypeCorrect == Spec => []TypeOK
<1>1. Init => TypeOK
    BY ShardAssumption DEF Init, TypeOK, NotDraining, deadzone_shard_id, ShardId
<1> QED
    BY <1>1, ShardTypeStep, PTL DEF Spec
=============================================================================
