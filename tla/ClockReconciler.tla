-------------------------- MODULE ClockReconciler --------------------------
(***************************************************************************)
(* src/src/clock_reconciliation.rs: the measured clock offsets of devices. *)
(* now is SystemTime in milliseconds; it may be set back.  latest is       *)
(* history: what was registered last for a device, whether update_offsets  *)
(* has found it stale since, and its place in the order of registrations.  *)
(***************************************************************************)
EXTENDS Integers, FiniteSets

CONSTANTS Devices, Offsets, Confidences,
          max_offsets, max_age,
          MaxTime, MaxRegistrations      \* bounds

VARIABLES offsets, now, latest, count

vars == <<offsets, now, latest, count>>

None == -1

Init == offsets = <<>> /\ now = 0 /\ latest = <<>> /\ count = 0

\* now - last_updated is a u64 and wraps: an offset from the future is stale.
is_stale(o) == now < o.last_updated \/ now - o.last_updated > max_age

ClockOffset(offset_ms, confidence) ==
    [offset_ms |-> offset_ms, last_updated |-> now, confidence |-> confidence]

Put(f, k, v) == [x \in DOMAIN f \cup {k} |-> IF x = k THEN v ELSE f[x]]
Restricted(f, S) == [x \in S |-> f[x]]

\* The entries min_by_key may return: the first in the order of the map.
Stalest == {d \in DOMAIN offsets :
              \A e \in DOMAIN offsets : offsets[d].last_updated <= offsets[e].last_updated}

\* A bug to compare with: a device that is registered already makes room as well.
EvictAlways(d) ==
    IF Cardinality(DOMAIN offsets) >= max_offsets
    THEN {DOMAIN offsets \ {e} : e \in Stalest} ELSE {DOMAIN offsets}

\* What may stay in the map when d registers.
MakeRoom(d) ==
    IF Cardinality(DOMAIN offsets) >= max_offsets /\ d \notin DOMAIN offsets
    THEN {DOMAIN offsets \ {e} : e \in Stalest} ELSE {DOMAIN offsets}

register_offset(d, offset_ms, confidence) ==
    /\ count < MaxRegistrations
    /\ LET o == ClockOffset(offset_ms, confidence)
       IN  /\ \E S \in MakeRoom(d) : offsets' = Put(Restricted(offsets, S), d, o)
           /\ latest' = Put(latest, d, [offset |-> o, order |-> count, purged |-> FALSE])
    /\ count' = count + 1
    /\ UNCHANGED now

update_offsets ==
    /\ offsets' = Restricted(offsets, {d \in DOMAIN offsets : ~is_stale(offsets[d])})
    /\ latest' = [d \in DOMAIN latest |->
                    [latest[d] EXCEPT !.purged = @ \/ is_stale(latest[d].offset)]]
    /\ UNCHANGED <<now, count>>

\* The system clock: it runs, and it is corrected backwards.
Tick == now < MaxTime /\ now' = now + 1 /\ UNCHANGED <<offsets, latest, count>>
SetBack == now > 0 /\ now' \in 0..(now - 1) /\ UNCHANGED <<offsets, latest, count>>

Next ==
    \/ \E d \in Devices, o \in Offsets, c \in Confidences : register_offset(d, o, c)
    \/ update_offsets \/ Tick \/ SetBack

\* Network time = device time - offset, None without a fresh offset or below zero.
Apply(d, device_ms, usable) ==
    IF usable /\ device_ms - offsets[d].offset_ms >= 0
    THEN device_ms - offsets[d].offset_ms ELSE None

has_offset(d) == d \in DOMAIN offsets /\ ~is_stale(offsets[d])
reconcile(d, device_ms) == Apply(d, device_ms, has_offset(d))
reconcile_with_confidence(d, device_ms, min) ==
    Apply(d, device_ms, has_offset(d) /\ offsets[d].confidence >= min)

calculate_offset(device_ms, network_ms) == device_ms - network_ms
----------------------------------------------------------------------------
\* The other devices that can have displaced d: registered later, or not before it
\* by the clock.
Rivals(d) ==
    {e \in DOMAIN latest \ {d} :
        \/ latest[e].order > latest[d].order
        \/ latest[e].offset.last_updated >= latest[d].offset.last_updated}

\* reconcile() corrects a timestamp with the last offset registered for the device or
\* not at all, and does correct it while that offset is fresh, update_offsets has not
\* dropped it and fewer than max_offsets other devices can have displaced it: whatever
\* register_offset evicts, and whatever happens to the clock.  The filter on confidence
\* only takes corrections away, and an offset computed by calculate_offset undoes itself.
OffsetsAreCurrent ==
    /\ Cardinality(DOMAIN offsets) <= max_offsets
    /\ \A d \in Devices, t \in 0..MaxTime :
         LET r == reconcile(d, t)
         IN  /\ r # None => d \in DOMAIN latest /\ calculate_offset(t, r) = latest[d].offset.offset_ms
             /\ (/\ d \in DOMAIN latest
                 /\ ~is_stale(latest[d].offset) /\ ~latest[d].purged
                 /\ Cardinality(Rivals(d)) < max_offsets
                 /\ t >= latest[d].offset.offset_ms) => r # None
             /\ \A c \in Confidences : reconcile_with_confidence(d, t, c) \in {r, None}
=============================================================================
