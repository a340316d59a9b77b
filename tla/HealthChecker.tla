--------------------------- MODULE HealthChecker ---------------------------
(***************************************************************************)
(* HealthChecker of src/src/reliability.rs: a task stores the time of      *)
(* every successful check, and is_healthy compares its age with twice the  *)
(* check interval.  The times are elapsed_since_startup(): readings of the *)
(* wall clock minus STARTUP_TIME, which may both be set while the checker  *)
(* runs.  `since`, which nothing can set, is the real age of the last      *)
(* success.                                                                *)
(***************************************************************************)
EXTENDS Integers

CONSTANTS check_interval,
          Period,     \* the sleep between two checks, 5 s in the code
          MaxWall,    \* bound: the highest reading of the wall clock
          MaxSteps,   \* bound: how often the wall clock is set
          U64         \* the modulus of the machine word that holds a time

VARIABLES STARTUP_TIME, wall,
          last_check, sleep,  \* the stored time; what is left of the sleep
          since,              \* history: time since the last successful check
          lost,               \* history: by how much the clocks were set back since then
          moved,              \* history: a clock was set since then
          steps

vars == <<STARTUP_TIME, wall, last_check, sleep, since, lost, moved, steps>>

\* elapsed_since_startup: the subtraction saturates.
Uptime(startup, now) == IF startup = 0 \/ now < startup THEN 0 ELSE now - startup

elapsed == Uptime(STARTUP_TIME, wall)

\* is_healthy by way of last_check_time; elapsed - timestamp is a u64 subtraction.
\* Its loads happen within one unit of time.
is_healthy == last_check # 0 /\ (elapsed - last_check) % U64 < 2 * check_interval

----------------------------------------------------------------------------
Init ==
    /\ STARTUP_TIME \in {0, 1} /\ wall = 1
    /\ last_check = 0 /\ sleep = 0
    /\ since = 0 /\ lost = 0 /\ moved = FALSE /\ steps = 0

\* Faulty variant of Check: a failed check is stored as well.
CheckAny(ok) ==
    /\ sleep = 0
    /\ sleep' = Period /\ last_check' = elapsed
    /\ IF ok THEN since' = 0 /\ lost' = 0 /\ moved' = FALSE
             ELSE UNCHANGED <<since, lost, moved>>
    /\ UNCHANGED <<STARTUP_TIME, wall, steps>>

\* One iteration of the task of start().
Check(ok) ==
    /\ sleep = 0
    /\ sleep' = Period
    /\ IF ok THEN last_check' = elapsed /\ since' = 0 /\ lost' = 0 /\ moved' = FALSE
             ELSE UNCHANGED <<last_check, since, lost, moved>>
    /\ UNCHANGED <<STARTUP_TIME, wall, steps>>

Tick ==
    /\ wall < MaxWall
    /\ wall' = wall + 1 /\ since' = since + 1
    /\ sleep' = IF sleep = 0 THEN 0 ELSE sleep - 1
    /\ UNCHANGED <<STARTUP_TIME, last_check, lost, moved, steps>>

\* STARTUP_TIME or the wall clock gets another value.
Moved ==
    /\ moved' = TRUE
    /\ LET back == (wall - STARTUP_TIME) - (wall' - STARTUP_TIME')
       IN  lost' = IF back > 0 THEN lost + back ELSE lost
    /\ UNCHANGED <<last_check, sleep, since>>

\* init_startup_time, by the application at any time.
InitStartupTime == STARTUP_TIME' = wall /\ UNCHANGED <<wall, steps>> /\ Moved

\* The wall clock is corrected (by NTP or an operator), forward or back.
SetClock(now) ==
    /\ steps < MaxSteps
    /\ steps' = steps + 1 /\ wall' = now /\ UNCHANGED STARTUP_TIME
    /\ Moved

Next ==
    \/ \E ok \in BOOLEAN : Check(ok)
    \/ Tick \/ InitStartupTime
    \/ \E now \in 1..MaxWall : SetClock(now)

----------------------------------------------------------------------------
(* Properties *)

\* is_healthy tells the truth about the last successful check.  Only a clock that was
\* set back can make an outdated success look recent, and then by no more than the
\* amount it was set back.  As long as no clock is set, a recent success is reported,
\* unless it happened in the first instant after startup, whose time is the 0 that
\* stands for "never".
HealthIsCurrent ==
    /\ is_healthy => since < 2 * check_interval + lost
    /\ last_check # 0 /\ ~moved /\ since < 2 * check_interval => is_healthy
=============================================================================
