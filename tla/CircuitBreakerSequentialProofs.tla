------------------- MODULE CircuitBreakerSequentialProofs -------------------
(***************************************************************************)
(* The refinement of BreakerContract by one caller of CircuitBreaker, for  *)
(* every threshold and timeout.  The inductive invariant is SequentialInv. *)
(***************************************************************************)
EXTENDS CircuitBreakerSequential, TLAPS

\* The one caller.
LEMMA OneCallerOnly == Callers = {Caller} /\ Caller \in Callers
    BY SequentialAssumption DEF Caller

\* The part of the type invariant that a single caller needs.
SeqTypeOK ==
    /\ state \in CircuitState
    /\ failure_count \in 0..failure_threshold
    /\ since_failure \in 0..AgeCap
    /\ steps = 0
    /\ pc \in [Callers -> PC]
    /\ loaded \in [Callers -> CircuitState]
    /\ held \in [Callers -> 0..AgeCap]
    /\ count \in [Callers -> 0..failure_threshold]

SeqInv == SeqTypeOK /\ SequentialInv

\* A step of the one caller, or of the clock.
LEMMA SeqNext ==
    ASSUME SeqTypeOK, [Next]_vars
    PROVE  Step(Caller) \/ Cancel(Caller) \/ Tick \/ UNCHANGED vars
    BY OneCallerOnly, SequentialAssumption DEF Next, SetClockBack, SeqTypeOK

\* A time difference that did not wrap is its own value.
LEMMA NoWrap ==
    ASSUME NEW a \in 0..AgeCap
    PROVE  Elapsed(a) = a
    BY TimeAssumption DEF Elapsed, AgeCap

\* SeqInv survives every step.
LEMMA SeqStep ==
    ASSUME SeqInv, [Next]_vars
    PROVE  SeqInv'
<1> USE ThresholdAssumption, TimeAssumption, SequentialAssumption, OneCallerOnly
<1> USE DEF SeqInv, SeqTypeOK, SequentialInv, CircuitState, PC, AgeCap, Goto, Finish
<1>1. CASE LoadState(Caller)
    BY <1>1 DEF LoadState, AfterLoad
<1>2. CASE LoadLastFailure(Caller)
    BY <1>2 DEF LoadLastFailure
<1>3. CASE CheckElapsed(Caller)
    <2>1. Elapsed(held[Caller]) = held[Caller]
        BY NoWrap
    <2> QED
        BY <1>3, <2>1 DEF CheckElapsed
<1>4. CASE StoreHalfOpen(Caller)
    BY <1>4 DEF StoreHalfOpen
<1>5. CASE TakeSlot(Caller)
    BY <1>5 DEF TakeSlot
<1>6. CASE Backout(Caller)
    BY <1>6 DEF Backout
<1>7. CASE Resolve(Caller)
    BY <1>7 DEF Resolve
<1>8. CASE Cancel(Caller)
    BY <1>8 DEF Cancel
<1>9. CASE ResetCount(Caller)
    BY <1>9 DEF ResetCount
<1>10. CASE StoreClosed(Caller)
    BY <1>10 DEF StoreClosed
<1>11. CASE CountFailure(Caller)
    BY <1>11 DEF CountFailure, Saturate
<1>12. CASE ReadClock(Caller)
    BY <1>12 DEF ReadClock
<1>13. CASE StoreFailureTime(Caller)
    BY <1>13 DEF StoreFailureTime
<1>14. CASE StoreOpen(Caller)
    BY <1>14 DEF StoreOpen
<1>15. CASE ReleaseSlot(Caller)
    BY <1>15 DEF ReleaseSlot
<1>16. CASE Tick
    BY <1>16 DEF Tick, Older
<1>17. CASE UNCHANGED vars
    BY <1>17 DEF vars
<1> QED
    BY <1>1, <1>2, <1>3, <1>4, <1>5, <1>6, <1>7, <1>8, <1>9, <1>10, <1>11, <1>12,
       <1>13, <1>14, <1>15, <1>16, <1>17, SeqNext DEF Step

\* Every step of the code is a step of the contract or changes nothing there:
\* a success maps to ResetCount, a failure to CountFailure, a probe to
\* StoreHalfOpen.
LEMMA ContractStep ==
    ASSUME SeqInv, [Next]_vars
    PROVE  [Contract!Next]_<<circuit, failure_count, age>>
<1> USE ThresholdAssumption, TimeAssumption, OneCallerOnly
<1> USE DEF SeqInv, SeqTypeOK, SequentialInv, CircuitState, PC, AgeCap, Goto, Finish,
            circuit, age
<1>1. CASE ResetCount(Caller)
    <2>1. Contract!Succeed
        BY <1>1 DEF ResetCount, Contract!Succeed
    <2> QED
        BY <2>1 DEF Contract!Next
<1>2. CASE CountFailure(Caller)
    <2>1. Contract!Fail
        BY <1>2 DEF CountFailure, Saturate, Contract!Fail
    <2> QED
        BY <2>1 DEF Contract!Next
<1>3. CASE StoreHalfOpen(Caller)
    <2>1. Contract!Probe
        BY <1>3 DEF StoreHalfOpen, Contract!Probe
    <2> QED
        BY <2>1 DEF Contract!Next
<1>4. CASE Tick
    <2>1. Contract!Tick \/ UNCHANGED <<circuit, failure_count, age>>
        BY <1>4 DEF Tick, Older, Contract!Tick
    <2> QED
        BY <2>1 DEF Contract!Next
<1>5. CASE LoadState(Caller) \/ LoadLastFailure(Caller) \/ CheckElapsed(Caller)
    BY <1>5 DEF LoadState, AfterLoad, LoadLastFailure, CheckElapsed
<1>6. CASE TakeSlot(Caller) \/ Backout(Caller) \/ Resolve(Caller) \/ Cancel(Caller)
    BY <1>6 DEF TakeSlot, Backout, Resolve, Cancel
<1>7. CASE StoreClosed(Caller) \/ ReadClock(Caller) \/ StoreFailureTime(Caller)
    BY <1>7 DEF StoreClosed, ReadClock, StoreFailureTime
<1>8. CASE StoreOpen(Caller) \/ ReleaseSlot(Caller)
    BY <1>8 DEF StoreOpen, ReleaseSlot
<1>9. CASE UNCHANGED vars
    BY <1>9 DEF vars
<1> QED
    BY <1>1, <1>2, <1>3, <1>4, <1>5, <1>6, <1>7, <1>8, <1>9, SeqNext DEF Step

\* The initial state satisfies the invariant and is initial for the contract.
LEMMA SeqInit == Init => SeqInv /\ Contract!Init
    BY ThresholdAssumption, TimeAssumption, OneCallerOnly
    DEF Init, SeqInv, SeqTypeOK, SequentialInv, CircuitState, PC, AgeCap, circuit, age,
        Contract!Init

\* One caller, any threshold, any timeout, calls dropped at will: call() implements
\* the atomic three-state breaker.
THEOREM SequentialRefinement == Spec => ImplementsContract
<1>1. Init => SeqInv /\ Contract!Init
    BY SeqInit
<1>2. SeqInv /\ [Next]_vars => SeqInv'
    BY SeqStep
<1>3. SeqInv /\ [Next]_vars => [Contract!Next]_<<circuit, failure_count, age>>
    BY ContractStep
<1> QED
    BY <1>1, <1>2, <1>3, PTL DEF Spec, ImplementsContract, Contract!Spec

\* Between two calls the circuit is closed exactly when fewer than
\* failure_threshold consecutive calls have failed.
THEOREM SequentialQuiescent == Spec => []QuiescentState
<1>1. SeqInv => QuiescentState
    BY DEF SeqInv, SequentialInv, QuiescentState
<1> QED
    BY <1>1, SeqInit, SeqStep, PTL DEF Spec
=============================================================================
