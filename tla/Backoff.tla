------------------------------- MODULE Backoff -------------------------------
(***************************************************************************)
(* How long the runner waits before the next poll: nextDelay and jitter of *)
(* internal/watch/runner.go and parseRetryAfter of                         *)
(* internal/communauto/client.go.  A duration is an integer number of      *)
(* clock units.  A random choice, or one that depends on the platform, is  *)
(* a set: an operator returns all the durations the code may compute.      *)
(***************************************************************************)
EXTENDS Integers

CONSTANTS
    PollInterval,  \* params.PollInterval
    MaxBackoff,    \* maxBackoff, 5 minutes
    MaxDuration,   \* the largest time.Duration, 2^63 - 1 ns
    Asked,         \* the Retry-After a failed poll may carry; 0 is none
    MaxFailures    \* bound: the count of failures goes no further

\* Two units at least, so that jitter does not round a duration down to 0, and
\* a cap whose jitter is a duration.
ASSUME IntervalAssumption ==
    /\ PollInterval \in Nat /\ PollInterval >= 2
    /\ MaxBackoff \in Nat /\ MaxBackoff >= 2
    /\ MaxDuration \in Nat /\ MaxDuration >= 2 * MaxBackoff

ASSUME FailureAssumption ==
    /\ Asked \subseteq Nat
    /\ MaxFailures \in Nat /\ MaxFailures > 0

maxBackoffExponent == 20

Smaller(a, b) == IF a <= b THEN a ELSE b

\* time.Duration(x) of a float64 x: out of range, the conversion saturates on
\* arm64 and yields the smallest integer on amd64.
Converted(x) ==
    IF x <= MaxDuration THEN {x} ELSE {MaxDuration, -MaxDuration - 1}

\* jitter: between 90 % and 110 %, truncated; nothing to do for d <= 0.
jitter(d) ==
    IF d <= 0 THEN {d}
    ELSE UNION {Converted(x) : x \in ((9 * d) \div 10)..((11 * d) \div 10)}

\* The nominal delay after n failures, before any capping.
Doubled(n) == Converted(PollInterval * 2^Smaller(n - 1, maxBackoffExponent))

\* Mutant: the cap is applied before the jitter only.
ExponentialOneCap(n) ==
    UNION {jitter(Smaller(d, MaxBackoff)) : d \in Doubled(n)}

\* Mutant: the number of failures is ignored.
ExponentialFlat(n) ==
    {Smaller(d, MaxBackoff) : d \in jitter(Smaller(PollInterval, MaxBackoff))}

Exponential(n) ==
    LET capped == {Smaller(d, MaxBackoff) : d \in Doubled(n)}
    IN  {Smaller(d, MaxBackoff) : d \in UNION {jitter(c) : c \in capped}}

\* Mutant: the Retry-After of the API is not capped.
nextDelayUncapped(n, retryAfter) ==
    IF n = 0 THEN jitter(PollInterval)
    ELSE IF retryAfter > 0 THEN {retryAfter}
    ELSE Exponential(n)

\* nextDelay after n consecutive failures, the last of which carried the
\* Retry-After `retryAfter` (0: it is no HTTPError, or has no such header).
nextDelay(n, retryAfter) ==
    IF n = 0 THEN jitter(PollInterval)
    ELSE IF retryAfter > 0 THEN {Smaller(retryAfter, MaxBackoff)}
    ELSE Exponential(n)

\* The integer form of the header, multiplied by time.Second in 64 bits.
parseRetryAfter(asked) ==
    ((asked + MaxDuration + 1) % (2 * (MaxDuration + 1))) - MaxDuration - 1

\* Every doubling of the interval is a duration.
DoublingFits ==
    \A e \in 0..maxBackoffExponent : PollInterval * 2^e \in PollInterval..MaxDuration

\* "At 20, the nominal delay is far above maxBackoff already."
CapReached == MaxBackoff <= PollInterval * 2^maxBackoffExponent
=============================================================================
