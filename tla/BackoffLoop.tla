----------------------------- MODULE BackoffLoop -----------------------------
(***************************************************************************)
(* The pace of Runner.Run (internal/watch/runner.go): the count of         *)
(* consecutive failures and the delay each poll leads to.  Its names are   *)
(* not those of Runner, so that RunnerProofs can extend both.              *)
(***************************************************************************)
EXTENDS Backoff

VARIABLES
    streak,    \* failures of Run
    delay,     \* what Run waits for
    asked      \* the Retry-After header of the last response, 0 if none

pace == <<streak, delay, asked>>

PaceInit ==
    /\ streak = 0
    /\ delay = 0
    /\ asked = 0

\* The default branch of Run's switch.
Succeed ==
    /\ streak' = 0
    /\ asked' = 0
    /\ delay' \in nextDelay(0, 0)

\* The branch of a failed poll that is not caused by the stop.
Fail(a) ==
    /\ streak < MaxFailures
    /\ streak' = streak + 1
    /\ asked' = a
    /\ delay' \in nextDelay(streak', parseRetryAfter(a))

PaceNext == Succeed \/ \E a \in Asked : Fail(a)

PaceSpec == PaceInit /\ [][PaceNext]_pace

-----------------------------------------------------------------------------

\* maxBackoff "must remain a hard guarantee", and the doubling never wraps
\* into an immediate retry: however long the outage, the wait is positive and
\* at most maxBackoff (nextDelay).
BackoffBounded == streak > 0 => delay > 0 /\ delay <= MaxBackoff

\* The longer the outage, the slower the polls: without a Retry-After, a
\* further failure never shortens the wait, except within the jitter of the
\* cap (nextDelay, jitter).
BackoffGrows ==
    [][streak > 0 /\ asked = 0 /\ streak' > streak /\ asked' = 0
         => delay' >= Smaller(delay, (9 * MaxBackoff) \div 10)]_pace
=============================================================================
