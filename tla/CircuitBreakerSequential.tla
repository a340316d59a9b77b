---------------------- MODULE CircuitBreakerSequential ----------------------
(***************************************************************************)
(* With one caller and a clock that is never set back, the atomic accesses *)
(* of CircuitBreaker::call implement BreakerContract.                      *)
(*                                                                         *)
(* A success takes effect at its first store (failure_count := 0), a       *)
(* failure at its fetch_add; the mapping below hides the window between    *)
(* these and the remaining stores of on_success and on_failure.            *)
(***************************************************************************)
EXTENDS CircuitBreaker

ASSUME SequentialAssumption == MaxSteps = 0 /\ \E c \in Callers : Callers = {c}

Caller == CHOOSE c \in Callers : TRUE

\* The state as the contract sees it.
circuit ==
    IF pc[Caller] = "succ_state" THEN "Closed"
    ELSE IF pc[Caller] \in {"fail_clock", "fail_time", "fail_state"}
         THEN IF count[Caller] >= failure_threshold THEN "Open" ELSE "Closed"
         ELSE state

\* The age of the last failure as the contract sees it.
age ==
    IF pc[Caller] = "fail_clock" THEN 0
    ELSE IF pc[Caller] = "fail_time" THEN held[Caller] ELSE since_failure

Contract == INSTANCE BreakerContract WITH failures <- failure_count

\* A caller that makes one call at a time sees the atomic three-state breaker of
\* BreakerContract, although on_success and on_failure are several stores.
ImplementsContract == Contract!Spec

\* Between two calls the state says how many consecutive failures there were:
\* the circuit is closed exactly when there were fewer than failure_threshold, so
\* one failed probe is enough to open it again.
QuiescentState ==
    pc[Caller] = "idle" => (state = "Closed" <=> failure_count < failure_threshold)

\* The inductive strengthening of QuiescentState that the refinement needs:
\* what the caller's position in call() says about the shared variables.
SequentialInv ==
    LET p == pc[Caller] IN
    /\ p \in {"idle", "release", "backout", "probe", "timed", "elapsed", "flip"} =>
           (state = "Closed" <=> failure_count < failure_threshold)
    /\ p \in {"timed", "elapsed", "flip"} => state = "Open"
    /\ p \in {"probe", "backout"} => state = "HalfOpen"
    /\ p \in {"await", "succ_count", "fail_count"} =>
           /\ state \in {"Closed", "HalfOpen"}
           /\ state = "Closed" <=> failure_count < failure_threshold
    /\ p = "succ_state" => failure_count = 0
    /\ p \in {"fail_clock", "fail_time", "fail_state"} =>
           /\ count[Caller] = failure_count
           /\ failure_count < failure_threshold => state = "Closed"
    /\ p = "fail_state" => failure_count >= failure_threshold
    /\ p = "elapsed" => held[Caller] = since_failure
    /\ p = "flip" => since_failure > recovery_timeout
=============================================================================
