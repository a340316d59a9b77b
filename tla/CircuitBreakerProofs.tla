------------------------ MODULE CircuitBreakerProofs ------------------------
(***************************************************************************)
(* For any number of callers, any threshold and timeout, any number of     *)
(* clock corrections and dropped calls: the type invariant, the exact      *)
(* accounting of half_open_calls and the exclusivity of its slot.          *)
(*                                                                         *)
(* None of the three is inductive alone.  IInv adds what a caller's        *)
(* position says about its local copy of the state (LocalInv) and that no  *)
(* age is below minus the number of clock corrections (AgeInv).            *)
(***************************************************************************)
EXTENDS CircuitBreaker, FiniteSetTheorems, TLAPS

LocalInv ==
    \A c \in Callers :
        /\ pc[c] \in {"timed", "elapsed", "flip"} => loaded[c] = "Open"
        /\ pc[c] \in {"probe", "backout", "release"} => loaded[c] = "HalfOpen"

AgeInv ==
    /\ since_failure >= -steps
    /\ \A c \in Callers : held[c] >= -steps

Counted == {c \in Callers : CountsInSlot(c)}

IInv == TypeOK /\ LocalInv /\ AgeInv /\ SlotAccounting /\ SlotExclusive

----------------------------------------------------------------------------
\* Adding or removing one caller changes the number of counted callers by one.
LEMMA CountedCardinality ==
    /\ IsFiniteSet(Counted)
    /\ Cardinality(Counted) \in Nat
    /\ \A c \in Counted : Cardinality(Counted \ {c}) = Cardinality(Counted) - 1
    /\ \A c \in Callers \ Counted :
           Cardinality(Counted \cup {c}) = Cardinality(Counted) + 1
    /\ Cardinality(Counted) = 0 => Counted = {}
<1>1. IsFiniteSet(Counted)
    BY CallersAssumption, FS_Subset DEF Counted
<1>2. Cardinality(Counted) \in Nat
    BY <1>1, FS_CardinalityType
<1>3. \A c \in Counted : Cardinality(Counted \ {c}) = Cardinality(Counted) - 1
    BY <1>1, FS_RemoveElement
<1>4. \A c \in Callers \ Counted :
          Cardinality(Counted \cup {c}) = Cardinality(Counted) + 1
    BY <1>1, FS_AddElement
<1>5. Cardinality(Counted) = 0 => Counted = {}
    BY <1>1, FS_EmptySet
<1> QED
    BY <1>1, <1>2, <1>3, <1>4, <1>5

\* The typing, the local copies and the ages survive every step that does not
\* take half_open_calls below zero.
LEMMA TypeStep ==
    ASSUME TypeOK, LocalInv, AgeInv, [Next]_vars, half_open_calls' \in Nat
    PROVE  TypeOK' /\ LocalInv' /\ AgeInv'
<1> USE ThresholdAssumption, TimeAssumption
<1> USE DEF TypeOK, LocalInv, AgeInv, CircuitState, PC, Ages, AgeCap, Goto, Finish
<1>1. ASSUME NEW c \in Callers, LoadState(c)
      PROVE  TypeOK' /\ LocalInv' /\ AgeInv'
    BY <1>1 DEF LoadState, AfterLoad
<1>2. ASSUME NEW c \in Callers, LoadLastFailure(c)
      PROVE  TypeOK' /\ LocalInv' /\ AgeInv'
    BY <1>2 DEF LoadLastFailure
<1>3. ASSUME NEW c \in Callers, CheckElapsed(c)
      PROVE  TypeOK' /\ LocalInv' /\ AgeInv'
    BY <1>3 DEF CheckElapsed
<1>4. ASSUME NEW c \in Callers, StoreHalfOpen(c)
      PROVE  TypeOK' /\ LocalInv' /\ AgeInv'
    BY <1>4 DEF StoreHalfOpen
<1>5. ASSUME NEW c \in Callers, TakeSlot(c)
      PROVE  TypeOK' /\ LocalInv' /\ AgeInv'
    BY <1>5 DEF TakeSlot
<1>6. ASSUME NEW c \in Callers, Backout(c)
      PROVE  TypeOK' /\ LocalInv' /\ AgeInv'
    BY <1>6 DEF Backout
<1>7. ASSUME NEW c \in Callers, Resolve(c)
      PROVE  TypeOK' /\ LocalInv' /\ AgeInv'
    BY <1>7 DEF Resolve
<1>8. ASSUME NEW c \in Callers, Cancel(c)
      PROVE  TypeOK' /\ LocalInv' /\ AgeInv'
    BY <1>8 DEF Cancel
<1>9. ASSUME NEW c \in Callers, ResetCount(c)
      PROVE  TypeOK' /\ LocalInv' /\ AgeInv'
    BY <1>9 DEF ResetCount
<1>10. ASSUME NEW c \in Callers, StoreClosed(c)
      PROVE  TypeOK' /\ LocalInv' /\ AgeInv'
    BY <1>10 DEF StoreClosed
<1>11. ASSUME NEW c \in Callers, CountFailure(c)
      PROVE  TypeOK' /\ LocalInv' /\ AgeInv'
    BY <1>11 DEF CountFailure, Saturate
<1>12. ASSUME NEW c \in Callers, ReadClock(c)
      PROVE  TypeOK' /\ LocalInv' /\ AgeInv'
    BY <1>12 DEF ReadClock
<1>13. ASSUME NEW c \in Callers, StoreFailureTime(c)
      PROVE  TypeOK' /\ LocalInv' /\ AgeInv'
    BY <1>13 DEF StoreFailureTime
<1>14. ASSUME NEW c \in Callers, StoreOpen(c)
      PROVE  TypeOK' /\ LocalInv' /\ AgeInv'
    BY <1>14 DEF StoreOpen
<1>15. ASSUME NEW c \in Callers, ReleaseSlot(c)
      PROVE  TypeOK' /\ LocalInv' /\ AgeInv'
    BY <1>15 DEF ReleaseSlot
<1>16. ASSUME Tick PROVE TypeOK' /\ LocalInv' /\ AgeInv'
    BY <1>16 DEF Tick, Older
<1>17. ASSUME SetClockBack PROVE TypeOK' /\ LocalInv' /\ AgeInv'
    BY <1>17 DEF SetClockBack
<1>18. ASSUME UNCHANGED vars PROVE TypeOK' /\ LocalInv' /\ AgeInv'
    BY <1>18 DEF vars
<1> QED
    BY <1>1, <1>2, <1>3, <1>4, <1>5, <1>6, <1>7, <1>8, <1>9, <1>10, <1>11, <1>12,
       <1>13, <1>14, <1>15, <1>16, <1>17, <1>18 DEF Next, Step

\* The steps that touch neither half_open_calls nor leaked keep every caller
\* inside or outside the slot.
LEMMA NeutralStep ==
    ASSUME TypeOK, LocalInv, NEW c \in Callers,
           \/ LoadState(c) \/ LoadLastFailure(c) \/ CheckElapsed(c) \/ StoreHalfOpen(c)
           \/ Resolve(c) \/ ResetCount(c) \/ StoreClosed(c) \/ CountFailure(c)
           \/ ReadClock(c) \/ StoreFailureTime(c) \/ StoreOpen(c)
    PROVE  /\ half_open_calls' = half_open_calls
           /\ leaked' = leaked
           /\ \A d \in Callers : InSlot(d)' <=> InSlot(d)
           /\ \A d \in Callers : CountsInSlot(d)' <=> CountsInSlot(d)
<1> USE DEF TypeOK, LocalInv, CircuitState, PC, InSlot, CountsInSlot, Goto, Finish
<1> DEFINE Kept == /\ half_open_calls' = half_open_calls
                   /\ leaked' = leaked
                   /\ \A d \in Callers : InSlot(d)' <=> InSlot(d)
                   /\ \A d \in Callers : CountsInSlot(d)' <=> CountsInSlot(d)
<1>1. CASE LoadState(c)
    <2>1. /\ pc[c] = "idle" /\ pc'[c] \in {"timed", "probe", "await"}
          /\ pc'[c] = "await" => loaded'[c] = "Closed"
          /\ half_open_calls' = half_open_calls /\ leaked' = leaked
        BY <1>1 DEF LoadState, AfterLoad
    <2>2. \A d \in Callers \ {c} : pc'[d] = pc[d] /\ loaded'[d] = loaded[d]
        BY <1>1 DEF LoadState
    <2> QED
        BY <2>1, <2>2
<1>2. CASE LoadLastFailure(c)
    BY <1>2 DEF LoadLastFailure
<1>3. CASE CheckElapsed(c)
    BY <1>3 DEF CheckElapsed
<1>4. CASE StoreHalfOpen(c)
    BY <1>4 DEF StoreHalfOpen
<1>5. CASE Resolve(c)
    BY <1>5 DEF Resolve
<1>6. CASE ResetCount(c)
    BY <1>6 DEF ResetCount
<1>7. CASE StoreClosed(c)
    BY <1>7 DEF StoreClosed
<1>8. CASE CountFailure(c)
    BY <1>8 DEF CountFailure
<1>9. CASE ReadClock(c)
    BY <1>9 DEF ReadClock
<1>10. CASE StoreFailureTime(c)
    BY <1>10 DEF StoreFailureTime
<1>11. CASE StoreOpen(c)
    BY <1>11 DEF StoreOpen
<1> QED
    BY <1>1, <1>2, <1>3, <1>4, <1>5, <1>6, <1>7, <1>8, <1>9, <1>10, <1>11

\* The accounting and the exclusivity survive every step.
LEMMA SlotStep ==
    ASSUME IInv, [Next]_vars
    PROVE  SlotAccounting' /\ SlotExclusive' /\ half_open_calls' \in Nat
<1> DEFINE Goal == SlotAccounting' /\ SlotExclusive' /\ half_open_calls' \in Nat
<1>0. /\ TypeOK /\ LocalInv /\ SlotExclusive
      /\ half_open_calls = Cardinality(Counted) + leaked
      /\ leaked \in Nat
      /\ Cardinality(Counted) \in Nat
    BY CountedCardinality DEF IInv, SlotAccounting, Counted, TypeOK
<1>1. ASSUME /\ half_open_calls' = half_open_calls
             /\ leaked' = leaked
             /\ \A d \in Callers : InSlot(d)' <=> InSlot(d)
             /\ \A d \in Callers : CountsInSlot(d)' <=> CountsInSlot(d)
      PROVE  Goal
    <2>1. Counted' = Counted
        BY <1>1 DEF Counted
    <2> QED
        BY <1>0, <1>1, <2>1 DEF SlotAccounting, SlotExclusive, Counted
<1>2. ASSUME NEW c \in Callers, TakeSlot(c) PROVE Goal
    <2> USE DEF TypeOK, LocalInv, InSlot, CountsInSlot, Counted
    <2>1. c \in Callers \ Counted /\ Counted' = Counted \cup {c}
        BY <1>0, <1>2 DEF TakeSlot, Goto
    <2>2. half_open_calls' = Cardinality(Counted') + leaked'
        BY <1>0, <1>2, <2>1, CountedCardinality DEF TakeSlot
    <2>3. CASE half_open_calls > 0
        <3>1. \A d \in Callers : InSlot(d)' => InSlot(d)
            BY <1>0, <1>2, <2>3 DEF TakeSlot, Goto
        <3> QED
            BY <1>0, <1>2, <2>2, <3>1 DEF TakeSlot, SlotAccounting, SlotExclusive
    <2>4. CASE half_open_calls = 0
        <3>1. Counted = {}
            BY <1>0, <2>4, CountedCardinality
        <3>2. \A d \in Callers : InSlot(d)' => d = c
            BY <1>0, <1>2, <3>1 DEF TakeSlot, Goto
        <3> QED
            BY <1>0, <1>2, <2>2, <3>2 DEF TakeSlot, SlotAccounting, SlotExclusive
    <2> QED
        BY <1>0, <2>3, <2>4
<1>3. ASSUME NEW c \in Callers, Backout(c) \/ ReleaseSlot(c) PROVE Goal
    <2> USE DEF TypeOK, LocalInv, InSlot, CountsInSlot, Counted, Backout, ReleaseSlot, Goto
    <2>1. c \in Counted /\ Counted' = Counted \ {c}
        BY <1>0, <1>3
    <2>2. half_open_calls' = Cardinality(Counted') + leaked'
        BY <1>0, <1>3, <2>1, CountedCardinality
    <2>3. half_open_calls' \in Nat
        <3> HIDE DEF Counted
        <3>1. Cardinality(Counted \ {c}) \in Nat
            BY <2>1, CountedCardinality, FS_RemoveElement, FS_CardinalityType
        <3>2. Cardinality(Counted') \in Nat
            BY <2>1, <3>1
        <3>3. leaked' \in Nat
            BY <1>0, <1>3
        <3> QED
            BY <2>2, <3>2, <3>3
    <2>4. \A d \in Callers : InSlot(d)' => InSlot(d)
        BY <1>0, <1>3
    <2> QED
        BY <1>0, <2>2, <2>3, <2>4 DEF SlotAccounting, SlotExclusive
<1>4. ASSUME NEW c \in Callers, Cancel(c) PROVE Goal
    <2> USE DEF TypeOK, LocalInv, InSlot, CountsInSlot, Counted, Cancel, Goto
    <2>1. \A d \in Callers : InSlot(d)' => InSlot(d)
        BY <1>0, <1>4
    <2>2. CASE loaded[c] = "HalfOpen"
        <3>1. c \in Counted /\ Counted' = Counted \ {c}
            BY <1>0, <1>4, <2>2
        <3>2. half_open_calls' = Cardinality(Counted') + leaked'
            BY <1>0, <1>4, <2>2, <3>1, CountedCardinality
        <3> QED
            BY <1>0, <1>4, <2>1, <3>2 DEF SlotAccounting, SlotExclusive
    <2>3. CASE loaded[c] # "HalfOpen"
        <3>1. Counted' = Counted
            BY <1>0, <1>4, <2>3
        <3> QED
            BY <1>0, <1>4, <2>1, <2>3, <3>1 DEF SlotAccounting, SlotExclusive
    <2> QED
        BY <2>2, <2>3
<1>5. CASE Tick \/ SetClockBack \/ UNCHANGED vars
    BY <1>1, <1>5 DEF Tick, SetClockBack, vars, InSlot, CountsInSlot
<1>6. ASSUME NEW c \in Callers,
             \/ LoadState(c) \/ LoadLastFailure(c) \/ CheckElapsed(c) \/ StoreHalfOpen(c)
             \/ Resolve(c) \/ ResetCount(c) \/ StoreClosed(c) \/ CountFailure(c)
             \/ ReadClock(c) \/ StoreFailureTime(c) \/ StoreOpen(c)
      PROVE  Goal
    BY <1>0, <1>1, <1>6, NeutralStep
<1> QED
    BY <1>2, <1>3, <1>4, <1>5, <1>6 DEF Next, Step

----------------------------------------------------------------------------
\* For every set of callers, threshold and timeout: the type invariant, the
\* accounting of half_open_calls and the exclusivity of its slot hold in every
\* reachable state of CircuitBreaker::call.
THEOREM BreakerInvariant == Spec => []IInv
<1>1. Init => IInv
    <2> SUFFICES ASSUME Init PROVE IInv
        OBVIOUS
    <2>1. TypeOK /\ LocalInv /\ AgeInv /\ SlotExclusive
        BY ThresholdAssumption, TimeAssumption
        DEF Init, TypeOK, LocalInv, AgeInv, SlotExclusive, InSlot, CircuitState, PC,
            Ages, AgeCap
    <2>2. Counted = {}
        BY DEF Init, Counted, CountsInSlot, InSlot
    <2>3. SlotAccounting
        BY <2>2, FS_EmptySet DEF Init, SlotAccounting, Counted
    <2> QED
        BY <2>1, <2>3 DEF IInv
<1>2. IInv /\ [Next]_vars => IInv'
    BY SlotStep, TypeStep DEF IInv
<1> QED
    BY <1>1, <1>2, PTL DEF Spec

\* Every reachable state is well typed.
THEOREM BreakerTypeCorrect == Spec => []TypeOK
    BY BreakerInvariant, PTL DEF IInv

\* half_open_calls counts exactly the calls between their fetch_add and their
\* fetch_sub, plus the dropped ones: it neither leaks nor underflows.
THEOREM BreakerSlotAccounting == Spec => []SlotAccounting
    BY BreakerInvariant, PTL DEF IInv

\* At most one of the callers that found the breaker HalfOpen runs f.
THEOREM BreakerSlotExclusive == Spec => []SlotExclusive
    BY BreakerInvariant, PTL DEF IInv
=============================================================================
