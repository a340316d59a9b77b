----------------------------- MODULE SpreadEwma -----------------------------
(***************************************************************************)
(* EwmaSpreadState of src/src/gateway.rs: the moving average of the spread *)
(* of a protocol and of its absolute deviation, with EWMA_ALPHA = 1/20 and *)
(* EWMA_SIGMA = 3.  The f64 fields are kept as exact fractions: after n    *)
(* updates spread and abs_dev stand for spread / 20^(n-1) and              *)
(* abs_dev / 20^(n-1).  Rounding of the f64 operations is left out.        *)
(***************************************************************************)
EXTENDS Integers

New == [n |-> 0, spread |-> 0, abs_dev |-> 0]

initialized(e) == e.n > 0
Denominator(e) == 20 ^ (e.n - 1)
LOCAL Magnitude(x) == IF x < 0 THEN -x ELSE x
LOCAL Larger(x, y) == IF x >= y THEN x ELSE y

update(e, s) ==
    IF ~initialized(e)
    THEN [n |-> 1, spread |-> s, abs_dev |-> Magnitude(s)]
    ELSE [n |-> e.n + 1, spread |-> s * Denominator(e) + 19 * e.spread,
          abs_dev |-> Magnitude(s * Denominator(e) - e.spread) + 19 * e.abs_dev]

adaptive_threshold_ms(e, base) ==
    LET sum == e.spread + 3 * e.abs_dev
    IN  IF ~initialized(e) THEN base
        ELSE Larger(base, IF sum >= 0 THEN sum \div Denominator(e) ELSE -((-sum) \div Denominator(e)))
=============================================================================
