------------------------- MODULE CadenceTranslator -------------------------
(***************************************************************************)
(* src/src/cadence_translation.rs: the rules that adapt the rate of one    *)
(* protocol to another, and the rate limiters they create.  A rule is      *)
(* [type, protocol, transformation, arg, target]: arg is max_duplicates,   *)
(* window_ms, target_interval_ms or, for RateLimit, the interval           *)
(* 1 / max_per_second; target is the target cadence as an interval.  A     *)
(* limiter is [min_interval, since]: since is the time since last_sent,    *)
(* counted up to min_interval (that is all should_send asks);              *)
(* messages_since_last is written and never read, and is left out.         *)
(***************************************************************************)
EXTENDS Integers, Sequences, FiniteSetsExt

CONSTANTS Rules,          \* rules a client may add
          Unit,           \* milliseconds that pass in a step
          MaxRules        \* bound

VARIABLES rules, rate_limiters,
          action,         \* the answer of the last translate_message
          asked,          \* history: what that call was about
          quiet           \* history, by type and protocol: the time since a limited
                          \* message was sent, counted up to the longest interval

vars == <<rules, rate_limiters, action, asked, quiet>>

Init ==
    /\ rules = <<>> /\ rate_limiters = <<>> /\ action = "none"
    /\ asked = <<>> /\ quiet = <<>>

add_rule(r) ==
    /\ rules' = Append(rules, r)
    /\ UNCHANGED <<rate_limiters, action>>

Matching(rs, type, protocol) ==
    {i \in DOMAIN rs : rs[i].type = type /\ rs[i].protocol = protocol}

\* A bug to compare with: a rule added later replaces an earlier one.
LastRule(rs, type, protocol) ==
    Max(Matching(rs, type, protocol))

Rule(rs, type, protocol) ==
    Min(Matching(rs, type, protocol))

get_target_cadence(type, protocol) ==
    IF Matching(rules, type, protocol) = {} THEN "None"
    ELSE rules[Rule(rules, type, protocol)].target

\* RateLimiter::new(interval) lets the first message through at once.
Limiter(key, interval) ==
    IF key \in DOMAIN rate_limiters THEN rate_limiters[key]
    ELSE [min_interval |-> interval, since |-> interval]

SetLimiter(key, l) ==
    rate_limiters' = [k \in DOMAIN rate_limiters \cup {key} |->
                        IF k = key THEN l ELSE rate_limiters[k]]

should_send(key, interval) ==
    LET l == Limiter(key, interval)
        send == l.since >= l.min_interval
    IN  /\ SetLimiter(key, IF send THEN [l EXCEPT !.since = 0] ELSE l)
        /\ action' = IF send THEN "Send" ELSE "Drop"

\* The action for a message; emergency messages pass without a look at the rules.
translate_message(type, protocol, emergency) ==
    /\ UNCHANGED rules
    /\ IF emergency \/ Matching(rules, type, protocol) = {}
       THEN action' = "Send" /\ UNCHANGED rate_limiters
       ELSE LET rule == rules[Rule(rules, type, protocol)]
            IN  CASE rule.transformation = "Passthrough" ->
                       action' = "Send" /\ UNCHANGED rate_limiters
                  [] rule.transformation = "Aggregate" ->
                       action' = "Buffer" /\ UNCHANGED rate_limiters
                  [] rule.transformation = "Duplicate" ->
                       action' = "Duplicate" /\ UNCHANGED rate_limiters
                  [] rule.transformation \in {"RateLimit", "Throttle"} ->
                       should_send(<<type, protocol>>, rule.arg)

default_iridium_to_asts_rules ==
    LET r(type, transformation, arg, target) ==
          [type |-> type, protocol |-> "IridiumSBD", transformation |-> transformation,
           arg |-> arg, target |-> target]
    IN  <<r("heartbeat", "Duplicate", 720, 5000), r("location", "Throttle", 10000, 10000),
          r("telemetry", "Duplicate", 60, 1000), r("emergency", "Passthrough", 0, 60000)>>
----------------------------------------------------------------------------
Keys == {<<r.type, r.protocol>> : r \in Rules}
IsLimit(r) == r.transformation \in {"RateLimit", "Throttle"}
Longest == Max({r.arg : r \in Rules})
FirstAdded(k) == rules[Min(Matching(rules, k[1], k[2]))]
Limited(k) == Matching(rules, k[1], k[2]) # {} /\ IsLimit(FirstAdded(k))

AddRule(r) ==
    /\ Len(rules) < MaxRules
    /\ add_rule(r)
    /\ UNCHANGED <<asked, quiet>>

Ask(k, emergency) ==
    /\ translate_message(k[1], k[2], emergency)
    /\ asked' = [key |-> k, limited |-> Limited(k) /\ ~emergency,
                 quiet |-> IF k \in DOMAIN quiet THEN quiet[k] ELSE Longest]
    /\ quiet' = IF action' = "Send" /\ asked'.limited
                THEN [x \in DOMAIN quiet \cup {k} |-> IF x = k THEN 0 ELSE quiet[x]]
                ELSE quiet

UpTo(x, limit) == IF x < limit THEN x ELSE limit

\* Unit milliseconds pass.
Elapse ==
    /\ rate_limiters' = [k \in DOMAIN rate_limiters |->
          LET l == rate_limiters[k] IN [l EXCEPT !.since = UpTo(@ + Unit, l.min_interval)]]
    /\ quiet' = [k \in DOMAIN quiet |-> UpTo(quiet[k] + Unit, Longest)]
    /\ asked' = <<>>
    /\ UNCHANGED <<rules, action>>

Next ==
    \/ \E r \in Rules : AddRule(r)
    \/ \E k \in Keys, e \in BOOLEAN : Ask(k, e)
    \/ Elapse

\* The first limiting rule added for a type and protocol decides for good
\* (translate_message): a message it limits is sent if and only if no message was
\* sent under it for its whole interval, whatever rules are added in between.  So a
\* second one within the interval is always dropped, and none is dropped needlessly.
ThrottleIsExact ==
    asked # <<>> /\ asked.limited =>
        action = IF asked.quiet >= FirstAdded(asked.key).arg THEN "Send" ELSE "Drop"
=============================================================================
