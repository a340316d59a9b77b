--------------------------- MODULE CircuitBreaker ---------------------------
(***************************************************************************)
(* The circuit breaker of src/src/reliability.rs, shared by every task of  *)
(* the gateway that uplinks to ASTS (emergency senders, the consumer of    *)
(* the incoming batches, the consumer of the transmission batches).        *)
(*                                                                         *)
(* CircuitBreaker::call takes no lock: it is a sequence of single atomic   *)
(* accesses with an await in the middle, so each access is an action of    *)
(* its own and the callers interleave freely between any two of them.      *)
(*                                                                         *)
(* Time.  The code only compares "elapsed_since_startup() - t" with        *)
(* recovery_timeout, so the model keeps ages (now - t) instead of t:       *)
(* since_failure is the age of last_failure_time, held[c] the age of the   *)
(* clock value that caller c has in a local variable.  Ages stop growing   *)
(* at AgeCap, where every comparison has its final answer.  The difference *)
(* is a u64 subtraction (Elapsed): the wall clock may be set back, and the *)
(* release profile does not check overflow.                                *)
(*                                                                         *)
(* failure_count is only compared with failure_threshold, and is kept      *)
(* saturated there.                                                        *)
(***************************************************************************)
EXTENDS Integers, FiniteSets

CONSTANTS
    Callers,             \* tasks that share the breaker
    failure_threshold,   \* CircuitBreaker::new, first argument
    recovery_timeout,    \* CircuitBreaker::new, second argument
    StartupInitialized,  \* init_startup_time() ran before the first call
    MaxSteps,            \* bound: how often the wall clock is set back by one
    MaxCancels,          \* bound: how many half-open calls are dropped mid-way
    U64                  \* the modulus of the machine word that holds a time

ASSUME CallersAssumption == IsFiniteSet(Callers) /\ Callers # {}

ASSUME ThresholdAssumption == failure_threshold \in Nat \ {0}

ASSUME TimeAssumption ==
    /\ recovery_timeout \in Nat
    /\ StartupInitialized \in BOOLEAN
    /\ MaxSteps \in Nat
    /\ MaxCancels \in Nat
    /\ U64 \in Nat
    /\ U64 > 2 * (recovery_timeout + 1 + MaxSteps)

VARIABLES
    state,            \* AtomicU32 holding a CircuitState
    failure_count,    \* AtomicU32, saturated at failure_threshold
    since_failure,    \* age of last_failure_time
    half_open_calls,  \* AtomicU32
    pc,               \* pc[c]: the next atomic access of caller c
    loaded,           \* loaded[c]: the local variable `state` of call()
    held,             \* held[c]: age of the clock value c holds locally
    count,            \* count[c]: the local variable `count` of on_failure()
    steps,            \* clock corrections so far
    leaked            \* slots of half_open_calls whose call() was dropped

vars == <<state, failure_count, since_failure, half_open_calls,
          pc, loaded, held, count, steps, leaked>>

CircuitState == {"Closed", "Open", "HalfOpen"}

PC == {"idle", "timed", "elapsed", "flip", "probe", "backout", "await",
       "succ_count", "succ_state", "fail_count", "fail_clock", "fail_time",
       "fail_state", "release"}

AgeCap == recovery_timeout + 1 + MaxSteps
Ages == (-MaxSteps)..AgeCap
Older(a) == IF a < AgeCap THEN a + 1 ELSE a

\* The u64 subtraction "elapsed_since_startup() - last_failure".
Elapsed(age) == age % U64

\* fetch_add on failure_count, saturated.
Saturate(n) == IF n < failure_threshold THEN n ELSE failure_threshold

\* Faulty variant of Finish: the slot is not given back.
NeverRelease(c) == "idle"

\* Where a completed call goes: a caller that loaded HalfOpen gives its slot back.
Finish(c) == IF loaded[c] = "HalfOpen" THEN "release" ELSE "idle"

\* Where call() goes on the state it loaded.
AfterLoad == [Open |-> "timed", HalfOpen |-> "probe", Closed |-> "await"]

Goto(c, l) == pc' = [pc EXCEPT ![c] = l]

----------------------------------------------------------------------------
Init ==
    /\ state = "Closed"
    /\ failure_count = 0
    /\ since_failure = 0
    /\ half_open_calls = 0
    /\ pc = [c \in Callers |-> "idle"]
    /\ loaded = [c \in Callers |-> "Closed"]
    /\ held = [c \in Callers |-> 0]
    /\ count = [c \in Callers |-> 0]
    /\ steps = 0
    /\ leaked = 0

\* call(): load the state and branch on the local copy.
LoadState(c) ==
    /\ pc[c] = "idle"
    /\ loaded' = [loaded EXCEPT ![c] = state]
    /\ Goto(c, AfterLoad[state])
    /\ UNCHANGED <<state, failure_count, since_failure, half_open_calls,
                   held, count, steps, leaked>>

\* Open: load last_failure_time.
LoadLastFailure(c) ==
    /\ pc[c] = "timed"
    /\ held' = [held EXCEPT ![c] = since_failure]
    /\ Goto(c, "elapsed")
    /\ UNCHANGED <<state, failure_count, since_failure, half_open_calls,
                   loaded, count, steps, leaked>>

\* Faulty variant of CheckElapsed: a rejected call counts as a failure time.
RefreshOnReject(c) ==
    /\ pc[c] = "elapsed"
    /\ Goto(c, IF Elapsed(held[c]) > recovery_timeout THEN "flip" ELSE "idle")
    /\ since_failure' = IF Elapsed(held[c]) > recovery_timeout THEN since_failure ELSE 0
    /\ held' = [held EXCEPT ![c] = 0]
    /\ UNCHANGED <<state, failure_count, half_open_calls, loaded, count, steps, leaked>>

\* Open: read the clock; go on to HalfOpen, or return Err(Open).
CheckElapsed(c) ==
    /\ pc[c] = "elapsed"
    /\ Goto(c, IF Elapsed(held[c]) > recovery_timeout THEN "flip" ELSE "idle")
    /\ held' = [held EXCEPT ![c] = 0]
    /\ UNCHANGED <<state, failure_count, since_failure, half_open_calls,
                   loaded, count, steps, leaked>>

\* Open, timeout elapsed: store HalfOpen and run f.  The local copy stays Open.
StoreHalfOpen(c) ==
    /\ pc[c] = "flip"
    /\ state' = "HalfOpen"
    /\ Goto(c, "await")
    /\ UNCHANGED <<failure_count, since_failure, half_open_calls,
                   loaded, held, count, steps, leaked>>

\* Faulty variant of TakeSlot: compares with one instead of zero.
TakeSecondSlot(c) ==
    /\ pc[c] = "probe"
    /\ half_open_calls' = half_open_calls + 1
    /\ Goto(c, IF half_open_calls > 1 THEN "backout" ELSE "await")
    /\ UNCHANGED <<state, failure_count, since_failure,
                   loaded, held, count, steps, leaked>>

\* HalfOpen: fetch_add on half_open_calls; only the one that finds 0 runs f.
TakeSlot(c) ==
    /\ pc[c] = "probe"
    /\ half_open_calls' = half_open_calls + 1
    /\ Goto(c, IF half_open_calls > 0 THEN "backout" ELSE "await")
    /\ UNCHANGED <<state, failure_count, since_failure,
                   loaded, held, count, steps, leaked>>

\* HalfOpen, slot taken by another caller: fetch_sub and return Err(Open).
Backout(c) ==
    /\ pc[c] = "backout"
    /\ half_open_calls' = half_open_calls - 1
    /\ Goto(c, "idle")
    /\ UNCHANGED <<state, failure_count, since_failure,
                   loaded, held, count, steps, leaked>>

\* f.await resolves.
Resolve(c) ==
    /\ pc[c] = "await"
    /\ \E l \in {"succ_count", "fail_count"} : Goto(c, l)
    /\ UNCHANGED <<state, failure_count, since_failure, half_open_calls,
                   loaded, held, count, steps, leaked>>

\* The future of call() is dropped by its owner while f is pending: nothing
\* after the await runs.
Cancel(c) ==
    /\ pc[c] = "await"
    /\ leaked < MaxCancels
    /\ leaked' = IF loaded[c] = "HalfOpen" THEN leaked + 1 ELSE leaked
    /\ Goto(c, "idle")
    /\ UNCHANGED <<state, failure_count, since_failure, half_open_calls,
                   loaded, held, count, steps>>

\* Faulty variant of ResetCount: a success keeps the count.
KeepCount(c) ==
    /\ pc[c] = "succ_count"
    /\ Goto(c, "succ_state")
    /\ UNCHANGED <<state, failure_count, since_failure, half_open_calls,
                   loaded, held, count, steps, leaked>>

\* on_success(): two stores.
ResetCount(c) ==
    /\ pc[c] = "succ_count"
    /\ failure_count' = 0
    /\ Goto(c, "succ_state")
    /\ UNCHANGED <<state, since_failure, half_open_calls,
                   loaded, held, count, steps, leaked>>

\* Faulty variant of StoreClosed: a success does not close the circuit.
StayHalfOpen(c) ==
    /\ pc[c] = "succ_state"
    /\ Goto(c, Finish(c))
    /\ UNCHANGED <<state, failure_count, since_failure, half_open_calls,
                   loaded, held, count, steps, leaked>>

StoreClosed(c) ==
    /\ pc[c] = "succ_state"
    /\ state' = "Closed"
    /\ Goto(c, Finish(c))
    /\ UNCHANGED <<failure_count, since_failure, half_open_calls,
                   loaded, held, count, steps, leaked>>

\* on_failure(): fetch_add on failure_count ...
CountFailure(c) ==
    /\ pc[c] = "fail_count"
    /\ failure_count' = Saturate(failure_count + 1)
    /\ count' = [count EXCEPT ![c] = Saturate(failure_count + 1)]
    /\ Goto(c, "fail_clock")
    /\ UNCHANGED <<state, since_failure, half_open_calls,
                   loaded, held, steps, leaked>>

\* ... read the clock ...
ReadClock(c) ==
    /\ pc[c] = "fail_clock"
    /\ held' = [held EXCEPT ![c] = 0]
    /\ Goto(c, "fail_time")
    /\ UNCHANGED <<state, failure_count, since_failure, half_open_calls,
                   loaded, count, steps, leaked>>

\* ... store it as last_failure_time ...
StoreFailureTime(c) ==
    /\ pc[c] = "fail_time"
    /\ since_failure' = held[c]
    /\ held' = [held EXCEPT ![c] = 0]
    /\ Goto(c, IF count[c] >= failure_threshold THEN "fail_state" ELSE Finish(c))
    /\ UNCHANGED <<state, failure_count, half_open_calls,
                   loaded, count, steps, leaked>>

\* ... and open the circuit when the threshold is reached.
StoreOpen(c) ==
    /\ pc[c] = "fail_state"
    /\ state' = "Open"
    /\ Goto(c, Finish(c))
    /\ UNCHANGED <<failure_count, since_failure, half_open_calls,
                   loaded, held, count, steps, leaked>>

\* A caller that loaded HalfOpen gives its slot back after on_success or
\* on_failure.
ReleaseSlot(c) ==
    /\ pc[c] = "release"
    /\ half_open_calls' = half_open_calls - 1
    /\ Goto(c, "idle")
    /\ UNCHANGED <<state, failure_count, since_failure,
                   loaded, held, count, steps, leaked>>

\* A millisecond passes: elapsed_since_startup() grows, unless the startup time
\* was never set, in which case it is ZERO for ever.
Tick ==
    /\ StartupInitialized
    /\ since_failure' = Older(since_failure)
    /\ held' = [c \in Callers |->
                   IF pc[c] \in {"elapsed", "fail_time"} THEN Older(held[c]) ELSE held[c]]
    /\ UNCHANGED <<state, failure_count, half_open_calls, pc, loaded, count,
                   steps, leaked>>

\* The wall clock is set back (SystemTime, not a monotonic clock, is read).
SetClockBack ==
    /\ StartupInitialized
    /\ steps < MaxSteps
    /\ steps' = steps + 1
    /\ since_failure' = since_failure - 1
    /\ held' = [c \in Callers |->
                   IF pc[c] \in {"elapsed", "fail_time"} THEN held[c] - 1 ELSE held[c]]
    /\ UNCHANGED <<state, failure_count, half_open_calls, pc, loaded, count, leaked>>

\* Every step of one call() except the choice to drop it.
Step(c) ==
    \/ LoadState(c) \/ LoadLastFailure(c) \/ CheckElapsed(c) \/ StoreHalfOpen(c)
    \/ TakeSlot(c) \/ Backout(c) \/ Resolve(c)
    \/ ResetCount(c) \/ StoreClosed(c)
    \/ CountFailure(c) \/ ReadClock(c) \/ StoreFailureTime(c) \/ StoreOpen(c)
    \/ ReleaseSlot(c)

Next == (\E c \in Callers : Step(c) \/ Cancel(c)) \/ Tick \/ SetClockBack

Spec == Init /\ [][Next]_vars

\* Every task that calls is scheduled, every request resolves, traffic keeps
\* coming and time passes.
Fairness == WF_vars(Tick) /\ \A c \in Callers : WF_vars(Step(c))

FairSpec == Spec /\ Fairness
----------------------------------------------------------------------------
(* Properties *)

\* Every variable keeps its type; ages stay within the bound.
TypeOK ==
    /\ state \in CircuitState
    /\ failure_count \in 0..failure_threshold
    /\ since_failure \in Ages
    /\ half_open_calls \in Nat
    /\ pc \in [Callers -> PC]
    /\ loaded \in [Callers -> CircuitState]
    /\ held \in [Callers -> Ages]
    /\ count \in [Callers -> 0..failure_threshold]
    /\ steps \in 0..MaxSteps
    /\ leaked \in 0..MaxCancels

\* c has been let through as the half-open caller and has not released yet.
InSlot(c) ==
    /\ loaded[c] = "HalfOpen"
    /\ pc[c] \in {"await", "succ_count", "succ_state", "fail_count", "fail_clock",
                  "fail_time", "fail_state", "release"}

\* c's fetch_add on half_open_calls has not been undone by its fetch_sub yet.
CountsInSlot(c) == InSlot(c) \/ pc[c] = "backout"

\* half_open_calls is exactly the number of calls between their fetch_add and
\* their fetch_sub, plus the calls that were dropped in between: no path through
\* call() forgets to give its slot back or gives it back twice, whatever the
\* other callers store in `state` meanwhile.
SlotAccounting ==
    half_open_calls = Cardinality({c \in Callers : CountsInSlot(c)}) + leaked

\* Of the callers that found the breaker HalfOpen, at most one at a time runs f.
SlotExclusive ==
    \A c, d \in Callers : InSlot(c) /\ InSlot(d) => c = d

\* An open circuit is eventually probed again (chaos_network_partition.rs:95,
\* "Circuit breaker should recover after timeout").
Recovers == state = "Open" ~> state # "Open"

\* Infinitely often no call is in flight.
TrafficHasGaps == []<>(\A c \in Callers : pc[c] = "idle")

\* Once requests stop failing for good, the breaker is eventually Closed for
\* good, so that health_check() is true again and no call is rejected any more,
\* provided the traffic pauses now and then and no half-open call was dropped: a
\* dropped one keeps its slot, and every later half-open call is rejected.
ClosesWhenUplinkIsBack ==
    /\ TrafficHasGaps
    /\ [](leaked = 0)
    /\ <>[][\A c \in Callers : pc[c] = "await" => pc'[c] # "fail_count"]_vars
    => <>[](state = "Closed")
=============================================================================
