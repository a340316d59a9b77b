---------------------------- MODULE RetryPolicy ----------------------------
(***************************************************************************)
(* RetryPolicy::execute of src/src/reliability.rs: the loop around a       *)
(* fallible operation f, with a delay that doubles up to max_delay (30 s   *)
(* in the code).  Delays are in milliseconds.                              *)
(***************************************************************************)
EXTENDS Integers, Sequences

CONSTANTS Attempts,       \* values of max_attempts
          BaseDelays,     \* values of base_delay
          max_delay

VARIABLES policy,         \* the policy of this behaviour
          pc, attempt, delay,
          answers,        \* history: what f answered, TRUE for Ok
          slept           \* history: the delays between the calls

vars == <<policy, pc, attempt, delay, answers, slept>>

Init ==
    /\ policy \in [max_attempts : Attempts, base_delay : BaseDelays]
    /\ pc = "call" /\ attempt = 0 /\ delay = policy.base_delay
    /\ answers = <<>> /\ slept = <<>>

\* A bug to compare with: the error is returned one attempt late.
CallOnceMore(ok) ==
    /\ pc = "call"
    /\ attempt' = attempt + 1
    /\ answers' = Append(answers, ok)
    /\ pc' = IF ok THEN "ok" ELSE IF attempt' > policy.max_attempts THEN "err" ELSE "sleep"
    /\ UNCHANGED <<policy, delay, slept>>

Call(ok) ==
    /\ pc = "call"
    /\ attempt' = attempt + 1
    /\ answers' = Append(answers, ok)
    /\ pc' = IF ok THEN "ok" ELSE IF attempt' >= policy.max_attempts THEN "err" ELSE "sleep"
    /\ UNCHANGED <<policy, delay, slept>>

Sleep ==
    /\ pc = "sleep"
    /\ slept' = Append(slept, delay)
    /\ delay' = IF 2 * delay < max_delay THEN 2 * delay ELSE max_delay
    /\ pc' = "call"
    /\ UNCHANGED <<policy, attempt, answers>>

Next == (\E ok \in BOOLEAN : Call(ok)) \/ Sleep
----------------------------------------------------------------------------
Least(x, y) == IF x < y THEN x ELSE y

\* execute() stops at the first success and gives up after max_attempts failures (one,
\* if max_attempts is 0), with one delay between two calls: the base delay as it is,
\* even above max_delay, then twice as long every time and at most max_delay.
RetriesAsConfigured ==
    LET tries == IF policy.max_attempts = 0 THEN 1 ELSE policy.max_attempts
    IN  /\ Len(answers) <= tries
        /\ \A i \in 1..(Len(answers) - 1) : ~answers[i]
        /\ pc = "err" => Len(answers) = tries /\ ~answers[tries]
        /\ pc = "ok" => answers[Len(answers)] /\ Len(slept) = Len(answers) - 1
        /\ \A i \in DOMAIN slept :
             slept[i] = IF i = 1 THEN policy.base_delay
                        ELSE Least(max_delay, policy.base_delay * 2 ^ (i - 1))
=============================================================================
