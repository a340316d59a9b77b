--------------------------- MODULE BreakerContract ---------------------------
(***************************************************************************)
(* What a circuit breaker promises to a caller that makes one call at a    *)
(* time: an atomic three-state machine.  No call completes while the       *)
(* circuit is Open, it opens at failure_threshold consecutive failures, it *)
(* is probed only after recovery_timeout has passed since the last         *)
(* failure, and one probe decides between Closed and Open.                 *)
(***************************************************************************)
EXTENDS Integers

CONSTANTS failure_threshold, recovery_timeout,
          AgeCap   \* ages stop growing here

VARIABLES circuit,   \* "Closed", "Open" or "HalfOpen"
          failures,  \* consecutive failures, saturated at failure_threshold
          age        \* time since the last failure

Init == circuit = "Closed" /\ failures = 0 /\ age = 0

Succeed ==
    /\ circuit \in {"Closed", "HalfOpen"}
    /\ circuit' = "Closed"
    /\ failures' = 0
    /\ UNCHANGED age

Fail ==
    /\ circuit \in {"Closed", "HalfOpen"}
    /\ failures' = IF failures < failure_threshold THEN failures + 1 ELSE failures
    /\ circuit' = IF failures' >= failure_threshold THEN "Open" ELSE "Closed"
    /\ age' = 0

Probe ==
    /\ circuit = "Open"
    /\ age > recovery_timeout
    /\ circuit' = "HalfOpen"
    /\ UNCHANGED <<failures, age>>

Tick ==
    /\ age' = IF age < AgeCap THEN age + 1 ELSE age
    /\ UNCHANGED <<circuit, failures>>

Next == Succeed \/ Fail \/ Probe \/ Tick

Spec == Init /\ [][Next]_<<circuit, failures, age>>
=============================================================================
