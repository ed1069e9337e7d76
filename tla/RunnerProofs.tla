---------------------------- MODULE RunnerProofs ----------------------------
(***************************************************************************)
(* Proofs about the runner, for every fleet, every interval and timeout    *)
(* the configuration accepts, and every cooldown, and about the pace of    *)
(* its polls: after a failure, a positive wait of at most maxBackoff that  *)
(* grows with the outage.                                                  *)
(***************************************************************************)
EXTENDS Runner, BackoffLoop, TLAPS

-----------------------------------------------------------------------------
(* Every announcement reaches every sink.                                  *)

ControlType ==
    /\ pc \in {"poll", "request", "persist", "report", "sink", "wait", "stopped"}
    /\ sink \in Sinks
    /\ due \in [Sinks -> SUBSET Vehicle]
    /\ near \in SUBSET Vehicle

\* Between detection and report nothing was handed out, and Multi.Notify
\* serves the console first: this is what makes NothingDropped inductive.
DueInv ==
    /\ ControlType
    /\ NothingDropped
    /\ pc \in {"persist", "report"} => \A s \in Sinks : due[s] = announced
    /\ pc = "sink" /\ sink = "telegram" => due["console"] = {}

\* No announcement is lost between detection and the sinks, on any path: a
\* failing database, a failing sink, a stop (report, Multi.Notify).
THEOREM NothingDroppedTheorem == Spec => []NothingDropped
<1>1. Init => DueInv
  BY DEF Init, DueInv, ControlType, NothingDropped, Sinks
<1>2. DueInv /\ [Next]_vars => DueInv'
  <2> SUFFICES ASSUME DueInv, [Next]_vars
               PROVE  DueInv'
    OBVIOUS
  <2> USE DEF DueInv, ControlType, NothingDropped, vars, loop, feed, world, history
  <2>1. CASE StartPoll
    BY <2>1 DEF StartPoll
  <2>2. CASE PollSucceeds
    BY <2>2 DEF PollSucceeds, Feed!Observe, Feed!Appearances
  <2>3. ASSUME NEW a \in Asked, PollFails(a)
        PROVE  DueInv'
    BY <2>3 DEF PollFails
  <2>4. CASE Report
    BY <2>4 DEF Report, Sinks
  <2>5. CASE SinkReturns
    <3>1. CASE sink = "console" /\ Telegram
      BY <2>5, <3>1 DEF SinkReturns, Sinks
    <3>2. CASE ~(sink = "console" /\ Telegram)
      <4>1. \A s \in Sinks : due'[s] = {}
        BY <2>5, <3>2 DEF SinkReturns, Sinks
      <4> QED
        BY <2>5, <3>2, <4>1 DEF SinkReturns
    <3> QED
      BY <3>1, <3>2
  <2>6. CASE WaitEnds
    BY <2>6 DEF WaitEnds
  <2>7. CASE Persisted
    BY <2>7 DEF Persisted
  <2>8. CASE Tick
    BY <2>8 DEF Tick, Feed!Elapse
  <2>9. CASE Cancel \/ APIFails \/ APIRecovers \/ VehiclesMove
    BY <2>9 DEF Cancel, APIFails, APIRecovers, VehiclesMove
  <2>10. CASE UNCHANGED vars
    BY <2>10
  <2> QED
    BY <2>1, <2>2, <2>3, <2>4, <2>5, <2>6, <2>7, <2>8, <2>9, <2>10 DEF Next, Step
<1>3. DueInv => NothingDropped
  BY DEF DueInv
<1> QED
  BY <1>1, <1>2, <1>3, PTL DEF Spec

-----------------------------------------------------------------------------
(* An outage is not a departure.                                           *)

\* Whoever stayed since the last good poll was found by it.
StayedInv == stayed \subseteq inFence

\* A vehicle that never left is not announced, however many polls failed since
\* the last good one (Poll returns before det.Update).
THEOREM StayingTheorem == Spec => StayingIsSilent
<1>1. Init => StayedInv
  BY DEF Init, StayedInv
<1>2. StayedInv /\ [Next]_vars => StayedInv'
  <2> SUFFICES ASSUME StayedInv, [Next]_vars
               PROVE  StayedInv'
    OBVIOUS
  <2> USE DEF StayedInv, vars, loop, feed, world, history
  <2>1. CASE PollSucceeds
    BY <2>1 DEF PollSucceeds, Feed!Observe
  <2>2. CASE VehiclesMove
    BY <2>2 DEF VehiclesMove
  <2>3. ASSUME NEW a \in Asked, PollFails(a)
        PROVE  StayedInv'
    BY <2>3 DEF PollFails
  <2>4. CASE Tick
    BY <2>4 DEF Tick, Feed!Elapse
  <2>5. CASE StartPoll \/ Persisted \/ Report \/ SinkReturns \/ WaitEnds
    BY <2>5 DEF StartPoll, Persisted, Report, SinkReturns, WaitEnds
  <2>6. CASE Cancel \/ APIFails \/ APIRecovers
    BY <2>6 DEF Cancel, APIFails, APIRecovers
  <2>7. CASE UNCHANGED vars
    BY <2>7
  <2> QED
    BY <2>1, <2>2, <2>3, <2>4, <2>5, <2>6, <2>7 DEF Next, Step
<1>3. StayedInv => (PollSucceeds => announced' \cap stayed = {})
  BY DEF StayedInv, PollSucceeds, Feed!Observe, Feed!Appearances
<1> QED
  BY <1>1, <1>2, <1>3, PTL DEF Spec, StayingIsSilent

-----------------------------------------------------------------------------
(* The readiness probe does not flap.                                      *)

\* The longest normal wait.
MaxWait == (11 * PollInterval) \div 10

\* A poll of age a that is at most m old when the wait t is over.
Within(a, t, m) == a \in Nat /\ a <= m /\ t \in Int /\ a + t <= m

\* How old the last good poll may be at each place of the loop.  Nothing but
\* the waits lets it age, and each has a deadline; the notification has the
\* timeout of the Telegram client, the console takes no time.
AgeInv ==
    /\ pollAge \in Nat /\ failures \in Nat
    /\ age \in Int /\ age >= -1
    /\ pc \in {"poll", "request", "report", "sink", "wait", "stopped"}
    /\ sink \in {"console", "telegram"}
    /\ pc = "request" =>
          /\ timer \in Nat /\ pollAge + timer = HTTPTimeout
          /\ failures = 0 /\ age # Never => age + timer <= 3 * HTTPTimeout + MaxWait
    /\ pc = "report" => age >= 0 /\ age <= HTTPTimeout
    /\ pc = "sink" /\ sink = "console" => age >= 0 /\ age <= HTTPTimeout /\ timer \in Nat
    /\ pc = "sink" /\ sink = "telegram" =>
          age >= 0 /\ timer \in Nat /\ age + timer <= 2 * HTTPTimeout
    /\ pc = "wait" /\ failures = 0 =>
          Within(age, timer, 2 * HTTPTimeout + MaxWait)
    /\ pc = "poll" /\ failures = 0 => age <= 2 * HTTPTimeout + MaxWait

\* Whatever a float conversion yields, it is no more than its argument.
LEMMA ConvertedBounded ==
    ASSUME NEW x \in Nat, NEW d \in Converted(x)
    PROVE  d \in Int /\ d <= x
BY IntervalAssumption DEF Converted

\* A normal wait is at most 110 % of the interval (nextDelay, jitter).
LEMMA NormalWaitBounded ==
    ASSUME NEW d \in nextDelay(0, 0)
    PROVE  d \in Int /\ d <= MaxWait
<1>1. PICK x \in ((9 * PollInterval) \div 10)..MaxWait : d \in Converted(x)
  BY IntervalAssumption DEF nextDelay, jitter, MaxWait
<1>2. x \in Nat /\ x <= MaxWait /\ MaxWait \in Nat
  BY IntervalAssumption DEF MaxWait
<1> QED
  BY <1>1, <1>2, ConvertedBounded

\* A normal wait after a notification.
LEMMA NormalWaitWithin ==
    ASSUME NEW a \in 0..(2 * HTTPTimeout), NEW t \in nextDelay(0, 0)
    PROVE  Within(a, t, 2 * HTTPTimeout + MaxWait)
<1>1. t \in Int /\ t <= MaxWait
  BY NormalWaitBounded
<1>2. MaxWait \in Nat
  BY IntervalAssumption DEF MaxWait
<1> QED
  BY <1>1, <1>2, TimeoutAssumption DEF Within

\* Readiness: until a poll fails, the last good poll is at most five intervals
\* old, for every interval and timeout config.go accepts (StaleAfter).
THEOREM ReadyTheorem ==
    ASSUME Persist = FALSE, StdoutStalls = FALSE
    PROVE  Spec => []ReadyWhileHealthy
<1> USE IntervalAssumption, TimeoutAssumption, RunnerAssumption, FailureAssumption
<1>0. MaxWait \in Nat /\ 10 * MaxWait <= 11 * PollInterval /\ StaleAfter \in Nat
  BY DEF MaxWait, StaleAfter
<1>1. Init => AgeInv
  BY <1>0 DEF Init, AgeInv, Never
<1>2. AgeInv /\ [Next]_vars => AgeInv'
  <2> SUFFICES ASSUME AgeInv, [Next]_vars
               PROVE  AgeInv'
    OBVIOUS
  <2> USE <1>0 DEF AgeInv, Never, vars, loop, world, history
  <2>1. CASE StartPoll
    BY <2>1 DEF StartPoll
  <2>2. CASE PollSucceeds
    BY <2>2 DEF PollSucceeds
  <2>3. ASSUME NEW a \in Asked, PollFails(a)
        PROVE  AgeInv'
    <3>1. failures' \in Nat /\ (pc' = "wait" => failures' > 0)
      BY <2>3 DEF PollFails, Smaller
    <3> QED
      BY <2>3, <3>1 DEF PollFails
  <2>4. CASE Report
    <3>1. CASE announced = {}
      <4>1. /\ pc' = "wait" /\ sink' = sink /\ failures' = 0
            /\ age' = age /\ pollAge' = pollAge
            /\ age \in 0..(2 * HTTPTimeout)
            /\ timer' \in nextDelay(0, 0)
        BY <2>4, <3>1 DEF Report
      <4> QED
        BY <4>1, NormalWaitWithin
    <3>2. CASE announced # {}
      BY <2>4, <3>2 DEF Report
    <3> QED
      BY <3>1, <3>2
  <2>5. CASE SinkReturns
    <3>1. CASE sink = "console" /\ Telegram
      BY <2>5, <3>1 DEF SinkReturns, Smaller
    <3>2. CASE ~(sink = "console" /\ Telegram)
      <4>1. /\ pc' = "wait" /\ sink' = sink /\ failures' = failures
            /\ age' = age /\ pollAge' = pollAge
            /\ age \in 0..(2 * HTTPTimeout)
            /\ timer' \in nextDelay(0, 0)
        BY <2>5, <3>2 DEF SinkReturns
      <4> QED
        BY <4>1, NormalWaitWithin
    <3> QED
      BY <3>1, <3>2
  <2>6. CASE WaitEnds
    BY <2>6 DEF WaitEnds, Within
  <2>7. CASE Persisted
    BY <2>7 DEF Persisted
  <2>8. CASE Tick
    <3>1. age' \in Int /\ age' >= -1 /\ age' <= age + 1 /\ (age >= 0 => age' >= 0)
             /\ (age' # Never => age # Never)
      BY <2>8 DEF Tick, Smaller
    <3> QED
      BY <2>8, <3>1 DEF Tick, Waiting, Within
  <2>9. CASE Cancel \/ APIFails \/ APIRecovers \/ VehiclesMove
    BY <2>9 DEF Cancel, APIFails, APIRecovers, VehiclesMove
  <2>10. CASE UNCHANGED vars
    BY <2>10
  <2> QED
    BY <2>1, <2>2, <2>3, <2>4, <2>5, <2>6, <2>7, <2>8, <2>9, <2>10 DEF Next, Step
<1>3. AgeInv => ReadyWhileHealthy
  BY <1>0 DEF AgeInv, ReadyWhileHealthy, Ready, StaleAfter, Never, Within
<1> QED
  BY <1>1, <1>2, <1>3, PTL DEF Spec

-----------------------------------------------------------------------------
(* The recovery is prompt.                                                 *)

\* The longest wait of the loop.
LongestWait == IF MaxBackoff > HTTPTimeout + MaxWait THEN MaxBackoff ELSE HTTPTimeout + MaxWait

\* How long the API may have been up at each place of the loop.  A request that
\* is not clean was sent before the API came back; one that is clean succeeds,
\* so the way can only lead through one of the former and one wait.
UpInv ==
    /\ upFor \in Nat /\ failures \in Nat
    /\ ~up => upFor = 0
    /\ pc \in {"poll", "request", "report", "sink", "wait", "stopped"}
    /\ sink \in {"console", "telegram"}
    /\ pc = "request" =>
          /\ timer \in Nat /\ timer <= HTTPTimeout
          /\ clean => upFor + timer <= 2 * HTTPTimeout + LongestWait
          /\ ~clean => upFor + timer <= HTTPTimeout
    /\ pc = "report" => upFor = 0
    /\ pc = "sink" /\ sink = "console" => upFor = 0 /\ timer \in Nat
    /\ pc = "sink" /\ sink = "telegram" => timer \in Nat /\ upFor + timer <= HTTPTimeout
    /\ pc = "wait" => Within(upFor, timer, HTTPTimeout + LongestWait)
    /\ pc = "poll" => upFor <= HTTPTimeout + LongestWait

\* A wait after a failure is never above the cap, whatever its float
\* conversions yield (nextDelay).
LEMMA FailureWaitBounded ==
    ASSUME NEW n \in Nat, n > 0, NEW a \in Int, NEW d \in nextDelay(n, a)
    PROVE  d \in Int /\ d <= MaxBackoff
<1>1. CASE a > 0
  BY <1>1, IntervalAssumption DEF nextDelay, Smaller
<1>2. CASE ~(a > 0)
  <2>1. PICK nominal \in Doubled(n) :
           \E x \in jitter(Smaller(nominal, MaxBackoff)) : d = Smaller(x, MaxBackoff)
    BY <1>2 DEF nextDelay, Exponential
  <2>2. PICK x \in jitter(Smaller(nominal, MaxBackoff)) : d = Smaller(x, MaxBackoff)
    BY <2>1
  <2>. DEFINE product == PollInterval * 2^Smaller(n - 1, maxBackoffExponent)
  <2>3. nominal \in {product, MaxDuration, -MaxDuration - 1}
    BY <2>1 DEF Doubled, Converted
  <2>4. product \in Int
    <3>1. Smaller(n - 1, maxBackoffExponent) \in Nat
      BY DEF Smaller, maxBackoffExponent
    <3>. QED  BY <3>1, IntervalAssumption
  <2>. HIDE DEF product
  <2>5. Smaller(nominal, MaxBackoff) \in Int
    BY <2>3, <2>4, IntervalAssumption DEF Smaller
  <2>6. x \in Int
    <3>. DEFINE c == Smaller(nominal, MaxBackoff)
    <3>1. CASE c <= 0
      BY <2>2, <2>5, <3>1 DEF jitter
    <3>2. CASE ~(c <= 0)
      <4>1. PICK y \in ((9 * c) \div 10)..((11 * c) \div 10) : x \in Converted(y)
        BY <2>2, <3>2 DEF jitter
      <4>. QED  BY <4>1, IntervalAssumption DEF Converted
    <3>. QED  BY <3>1, <3>2
  <2>. QED  BY <2>2, <2>6, IntervalAssumption DEF Smaller
<1>. QED  BY <1>1, <1>2

\* Any wait that follows less than a timeout.
LEMMA WaitWithin ==
    ASSUME NEW u \in 0..HTTPTimeout, NEW t \in Int, t <= MaxBackoff \/ t <= MaxWait
    PROVE  Within(u, t, HTTPTimeout + LongestWait)
<1>1. MaxWait \in Nat
  BY IntervalAssumption DEF MaxWait
<1>2. LongestWait \in Nat /\ MaxBackoff <= LongestWait /\ HTTPTimeout + MaxWait <= LongestWait
  BY <1>1, IntervalAssumption, TimeoutAssumption DEF LongestWait
<1> QED
  BY <1>1, <1>2, IntervalAssumption, TimeoutAssumption DEF Within

\* parseRetryAfter yields an integer.
LEMMA AskedIsInteger ==
    ASSUME NEW a \in Nat
    PROVE  parseRetryAfter(a) \in Int
<1>1. 2 * (MaxDuration + 1) \in Nat /\ 2 * (MaxDuration + 1) > 0
  BY IntervalAssumption
<1>2. (a + MaxDuration + 1) % (2 * (MaxDuration + 1)) \in Int
  BY <1>1, IntervalAssumption
<1>. QED  BY <1>2, IntervalAssumption DEF parseRetryAfter

\* maxBackoff is short enough: whatever happened during the outage, a poll
\* succeeds within one late request, one longest wait and one request of the
\* return of the API (PromptRecovery; nextDelay, Poll).
THEOREM RecoveryTheorem ==
    ASSUME Persist = FALSE, StdoutStalls = FALSE
    PROVE  Spec => []PromptRecovery
<1> USE IntervalAssumption, TimeoutAssumption, RunnerAssumption, FailureAssumption
<1>0. /\ MaxWait \in Nat /\ LongestWait \in Nat
      /\ MaxBackoff <= LongestWait /\ HTTPTimeout + MaxWait <= LongestWait
      /\ MaxRecovery = 2 * HTTPTimeout + LongestWait
  BY DEF MaxWait, LongestWait, MaxRecovery
<1>1. Init => UpInv
  BY <1>0 DEF Init, UpInv
<1>2. UpInv /\ [Next]_vars => UpInv'
  <2> SUFFICES ASSUME UpInv, [Next]_vars
               PROVE  UpInv'
    OBVIOUS
  <2> USE <1>0 DEF UpInv, vars, loop, world, history
  <2>1. CASE StartPoll
    <3>1. CASE cancelled
      BY <2>1, <3>1 DEF StartPoll
    <3>2. CASE ~cancelled
      BY <2>1, <3>2 DEF StartPoll
    <3> QED
      BY <3>1, <3>2
  <2>2. CASE PollSucceeds
    BY <2>2 DEF PollSucceeds
  <2>3. ASSUME NEW a \in Asked, PollFails(a)
        PROVE  UpInv'
    <3>1. CASE cancelled
      BY <2>3, <3>1 DEF PollFails
    <3>2. CASE ~cancelled
      <4>1. /\ pc = "request" /\ ~clean /\ pc' = "wait"
            /\ failures' = Smaller(failures + 1, MaxFailures)
            /\ timer' \in nextDelay(failures', parseRetryAfter(a))
            /\ UNCHANGED <<sink, up, clean, upFor>>
        BY <2>3, <3>2 DEF PollFails
      <4>2. failures' \in Nat /\ failures' > 0
        BY <4>1 DEF Smaller
      <4>3. timer' \in Int /\ timer' <= MaxBackoff
        BY <4>1, <4>2, AskedIsInteger, FailureWaitBounded
      <4>4. upFor \in 0..HTTPTimeout
        BY <4>1
      <4>5. Within(upFor, timer', HTTPTimeout + LongestWait)
        BY <4>3, <4>4, WaitWithin
      <4> QED
        BY <4>1, <4>2, <4>5
    <3> QED
      BY <3>1, <3>2
  <2>4. CASE Report
    <3>1. CASE announced = {}
      <4>1. /\ pc = "report" /\ pc' = "wait" /\ failures' = 0 /\ timer' \in nextDelay(0, 0)
            /\ UNCHANGED <<sink, up, clean, upFor>>
        BY <2>4, <3>1 DEF Report
      <4>2. timer' \in Int /\ timer' <= MaxWait
        BY <4>1, NormalWaitBounded
      <4>3. upFor \in 0..HTTPTimeout
        BY <4>1
      <4>4. Within(upFor, timer', HTTPTimeout + LongestWait)
        BY <4>2, <4>3, WaitWithin
      <4> QED
        BY <4>1, <4>4
    <3>2. CASE announced # {}
      BY <2>4, <3>2 DEF Report
    <3> QED
      BY <3>1, <3>2
  <2>5. CASE SinkReturns
    <3>1. CASE sink = "console" /\ Telegram
      BY <2>5, <3>1 DEF SinkReturns, Smaller
    <3>2. CASE ~(sink = "console" /\ Telegram)
      <4>1. /\ pc = "sink" /\ pc' = "wait" /\ timer' \in nextDelay(0, 0)
            /\ UNCHANGED <<sink, up, clean, upFor, failures>>
        BY <2>5, <3>2 DEF SinkReturns
      <4>2. timer' \in Int /\ timer' <= MaxWait
        BY <4>1, NormalWaitBounded
      <4>3. upFor \in 0..HTTPTimeout
        BY <4>1
      <4>4. Within(upFor, timer', HTTPTimeout + LongestWait)
        BY <4>2, <4>3, WaitWithin
      <4> QED
        BY <4>1, <4>4
    <3> QED
      BY <3>1, <3>2
  <2>6. CASE WaitEnds
    BY <2>6 DEF WaitEnds, Within
  <2>7. CASE Persisted
    BY <2>7 DEF Persisted
  <2>8. CASE Tick
    <3>1. /\ upFor' \in Nat /\ upFor' <= upFor + 1 /\ (~up => upFor' = 0)
          /\ UNCHANGED <<pc, failures, sink, up, clean>>
          /\ pc # "report" /\ pc # "poll" /\ pc # "stopped"
          /\ pc = "sink" => sink = "telegram"
          /\ timer > 0 /\ timer' = timer - 1
      BY <2>8 DEF Tick, Waiting, Smaller, MaxRecovery
    <3>2. CASE pc = "request"
      BY <3>1, <3>2
    <3>3. CASE pc = "sink"
      BY <3>1, <3>3
    <3>4. CASE pc = "wait"
      BY <3>1, <3>4 DEF Within
    <3> QED
      BY <3>1, <3>2, <3>3, <3>4
  <2>9. CASE Cancel \/ APIRecovers \/ VehiclesMove
    BY <2>9 DEF Cancel, APIRecovers, VehiclesMove
  <2>10. CASE APIFails
    BY <2>10 DEF APIFails, Within
  <2>11. CASE UNCHANGED vars
    BY <2>11
  <2> QED
    BY <2>1, <2>2, <2>3, <2>4, <2>5, <2>6, <2>7, <2>8, <2>9, <2>10, <2>11 DEF Next, Step
<1>3. UpInv => PromptRecovery
  BY <1>0 DEF UpInv, PromptRecovery, Within
<1> QED
  BY <1>1, <1>2, <1>3, PTL DEF Spec

-----------------------------------------------------------------------------
(* The types.                                                              *)

\* The duration of a poll is within the timeout because the two add up to it.
TypeInv ==
    /\ TypeOK
    /\ pc = "request" => timer \in Nat /\ pollAge + timer = HTTPTimeout

\* A step of the feed keeps its types.
LEMMA FeedTypes ==
    ASSUME TypeOK,
           \/ UNCHANGED feed
           \/ Feed!Observe(near)
           \/ Feed!Elapse(1)
    PROVE  /\ inFence' \in SUBSET Vehicle /\ announced' \in SUBSET Vehicle
           /\ left' \in SUBSET Vehicle /\ watching' \in BOOLEAN
           /\ quiet' \in [Vehicle -> {Feed!Forever} \cup 0..RealertAfter]
<1> USE RunnerAssumption, FailureAssumption DEF TypeOK
<1>1. CASE UNCHANGED feed
  BY <1>1 DEF feed
<1>2. CASE Feed!Observe(near)
  <2>1. Feed!Silence \in {Feed!Forever} \cup 0..RealertAfter
    BY DEF Feed!Silence
  <2> QED
    BY <1>2, <2>1 DEF Feed!Observe, Feed!Appearances
<1>3. CASE Feed!Elapse(1)
  <2>1. ASSUME NEW v \in Vehicle
        PROVE  Feed!After(quiet[v], 1) \in {Feed!Forever} \cup 0..RealertAfter
    BY DEF Feed!After, Feed!Forever
  <2> QED
    BY <1>3, <2>1 DEF Feed!Elapse
<1> QED
  BY <1>1, <1>2, <1>3

\* Every delay is an integer.
LEMMA DelayIsInteger ==
    ASSUME NEW n \in Nat, NEW a \in Int, NEW d \in nextDelay(n, a)
    PROVE  d \in Int
<1>1. CASE n = 0
  <2>1. nextDelay(n, a) = nextDelay(0, 0)
    BY <1>1 DEF nextDelay
  <2> QED
    BY <2>1, NormalWaitBounded
<1>2. CASE n # 0
  BY <1>2, FailureWaitBounded
<1> QED
  BY <1>1, <1>2

\* The types of the runner, and with them the bounds of its clocks: a poll never
\* lasts longer than its timeout.
THEOREM TypeTheorem == Spec => []TypeOK
<1> USE IntervalAssumption, TimeoutAssumption, RunnerAssumption, FailureAssumption
<1>0. StaleAfter \in Nat /\ MaxRecovery \in Nat
  BY DEF StaleAfter, MaxRecovery
<1>1. Init => TypeInv
  <2> SUFFICES ASSUME Init PROVE TypeInv
    OBVIOUS
  <2>1. /\ inFence \in SUBSET Vehicle /\ announced \in SUBSET Vehicle /\ left \in SUBSET Vehicle
        /\ quiet \in [Vehicle -> {Feed!Forever} \cup 0..RealertAfter] /\ watching = FALSE
    BY DEF Init, Feed!FeedInit
  <2>2. /\ pc = "poll" /\ sink \in Sinks /\ pc \in {"poll", "request", "persist", "report", "sink", "wait", "stopped"}
    BY DEF Init, Sinks
  <2>3. cancelled \in BOOLEAN /\ up \in BOOLEAN /\ clean \in BOOLEAN /\ watching \in BOOLEAN
    BY <2>1, Zenon DEF Init
  <2>4. timer \in Int /\ failures \in 0..MaxFailures /\ pollAge \in 0..HTTPTimeout
    BY DEF Init
  <2>5. age \in {Never} \cup 0..(StaleAfter + 1) /\ upFor \in 0..(MaxRecovery + 1)
    BY <1>0 DEF Init
  <2>6. due \in [Sinks -> SUBSET Vehicle] /\ stayed \in SUBSET Vehicle /\ near \in SUBSET Vehicle
    BY DEF Init
  <2> QED
    BY <2>1, <2>2, <2>3, <2>4, <2>5, <2>6 DEF TypeInv, TypeOK
<1>2. TypeInv /\ [Next]_vars => TypeInv'
  <2> SUFFICES ASSUME TypeInv, [Next]_vars
               PROVE  TypeInv'
    OBVIOUS
  <2>0. TypeOK
    BY DEF TypeInv
  <2>00. /\ inFence' \in SUBSET Vehicle /\ announced' \in SUBSET Vehicle
         /\ left' \in SUBSET Vehicle /\ watching' \in BOOLEAN
         /\ quiet' \in [Vehicle -> {Feed!Forever} \cup 0..RealertAfter]
    <3>1. UNCHANGED feed \/ Feed!Observe(near) \/ Feed!Elapse(1)
      BY DEF Next, Step, StartPoll, PollSucceeds, PollFails, Report, SinkReturns, WaitEnds,
             Persisted, Tick, Cancel, APIFails, APIRecovers, VehiclesMove, vars
    <3> QED
      BY <2>0, <3>1, FeedTypes
  <2>1. failures' \in 0..MaxFailures
    BY <2>0 DEF Next, Step, StartPoll, PollSucceeds, PollFails, Report, SinkReturns, WaitEnds,
           Persisted, Tick, Cancel, APIFails, APIRecovers, VehiclesMove, vars, loop, Smaller, TypeOK
  <2>2. timer' \in Int
    <3>1. ASSUME NEW a \in Asked, PollFails(a) PROVE timer' \in Int
      <4>1. parseRetryAfter(a) \in Int /\ failures' \in Nat
        BY <2>1, AskedIsInteger
      <4> QED
        BY <2>0, <3>1, <4>1, DelayIsInteger DEF PollFails, TypeOK
    <3>2. CASE Report \/ SinkReturns
      <4>1. \A t \in nextDelay(0, 0) : t \in Int
        BY DelayIsInteger
      <4> QED
        BY <2>0, <3>2, <4>1 DEF Report, SinkReturns, Smaller, TypeOK
    <3>3. CASE Tick \/ StartPoll
      BY <2>0, <3>3 DEF Tick, StartPoll, TypeOK
    <3>4. CASE UNCHANGED timer
      BY <2>0, <3>4 DEF TypeOK
    <3> QED
      BY <3>1, <3>2, <3>3, <3>4 DEF Next, Step, PollSucceeds, WaitEnds,
         Persisted, Cancel, APIFails, APIRecovers, VehiclesMove, vars, loop
  <2>3. pollAge' \in 0..HTTPTimeout
        /\ (pc' = "request" => timer' \in Nat /\ pollAge' + timer' = HTTPTimeout)
    <3>1. CASE StartPoll
      BY <2>0, <3>1 DEF StartPoll, TypeOK, TypeInv
    <3>2. CASE Tick
      BY <2>0, <3>2 DEF Tick, Waiting, TypeOK, TypeInv
    <3>3. CASE UNCHANGED pollAge /\ (pc' = "request" => UNCHANGED <<pc, timer>>)
      BY <2>0, <3>3 DEF TypeOK, TypeInv
    <3> QED
      BY <3>1, <3>2, <3>3 DEF Next, Step, PollSucceeds, PollFails, Report, SinkReturns, WaitEnds,
         Persisted, Cancel, APIFails, APIRecovers, VehiclesMove, vars, loop
  <2>4. age' \in {Never} \cup 0..(StaleAfter + 1)
    <3>1. pollAge \in Nat /\ pollAge <= StaleAfter + 1
      BY <2>0, <1>0 DEF TypeOK, StaleAfter
    <3>2. CASE PollSucceeds
      BY <1>0, <3>1, <3>2 DEF PollSucceeds
    <3>3. CASE Tick
      BY <1>0, <2>0, <3>3 DEF Tick, Smaller, TypeOK, Never
    <3>4. CASE UNCHANGED age
      BY <2>0, <3>4 DEF TypeOK
    <3> QED
      BY <3>2, <3>3, <3>4 DEF Next, Step, StartPoll, PollFails, Report, SinkReturns, WaitEnds,
         Persisted, Cancel, APIFails, APIRecovers, VehiclesMove, vars, loop
  <2>5. upFor' \in 0..(MaxRecovery + 1)
    <3>1. CASE Tick
      BY <1>0, <2>0, <3>1 DEF Tick, Smaller, TypeOK
    <3>2. CASE upFor' = 0
      BY <1>0, <3>2
    <3>3. CASE UNCHANGED upFor
      BY <2>0, <3>3 DEF TypeOK
    <3> QED
      BY <3>1, <3>2, <3>3 DEF Next, Step, StartPoll, PollSucceeds, PollFails, Report, SinkReturns,
         WaitEnds, Persisted, Cancel, APIFails, APIRecovers, VehiclesMove, vars, history
  <2>6. /\ pc' \in {"poll", "request", "persist", "report", "sink", "wait", "stopped"}
        /\ sink' \in Sinks
    BY <2>0 DEF TypeOK, Sinks, Next, Step, StartPoll, PollSucceeds, PollFails, Report, SinkReturns,
       WaitEnds, Persisted, Tick, Cancel, APIFails, APIRecovers, VehiclesMove, vars, loop
  <2>7. /\ near' \in SUBSET Vehicle /\ stayed' \in SUBSET Vehicle
        /\ due' \in [Sinks -> SUBSET Vehicle]
    BY <2>0, <2>00 DEF TypeOK, Next, Step, StartPoll, PollSucceeds, PollFails, Report, SinkReturns,
       WaitEnds, Persisted, Tick, Cancel, APIFails, APIRecovers, VehiclesMove, vars, world, history
  <2>8. cancelled' \in BOOLEAN /\ up' \in BOOLEAN /\ clean' \in BOOLEAN
    BY <2>0, Zenon DEF TypeOK, Next, Step, StartPoll, PollSucceeds, PollFails, Report, SinkReturns,
       WaitEnds, Persisted, Tick, Cancel, APIFails, APIRecovers, VehiclesMove, vars, loop, world
  <2> QED
    BY <2>00, <2>1, <2>2, <2>3, <2>4, <2>5, <2>6, <2>7, <2>8 DEF TypeInv, TypeOK
<1>3. TypeInv => TypeOK
  BY DEF TypeInv
<1> QED
  BY <1>1, <1>2, <1>3, PTL DEF Spec

-----------------------------------------------------------------------------
(* The pace of the polls alone: the loop with its count of failures and    *)
(* nothing else (BackoffLoop), of which Runner keeps the count.            *)

\* The jitter of a capped delay is a positive duration (jitter).
LEMMA JitterPositive ==
    ASSUME NEW d \in 2..MaxBackoff, NEW x \in jitter(d)
    PROVE  x \in Nat /\ x > 0
<1>1. PICK y \in ((9 * d) \div 10)..((11 * d) \div 10) : x \in Converted(y)
  BY IntervalAssumption DEF jitter
<1>2. /\ (9 * d) \div 10 \in Nat /\ (9 * d) \div 10 >= 1
      /\ (11 * d) \div 10 \in Nat /\ (11 * d) \div 10 <= 2 * d
  BY IntervalAssumption
<1>3. y \in 1..MaxDuration
  BY <1>1, <1>2, IntervalAssumption
<1> QED
  BY <1>1, <1>3, IntervalAssumption DEF Converted

\* If every doubling of the interval is a duration, the nominal delay is at
\* least the interval: no wrap-around (nextDelay).
LEMMA DoubledAtLeastInterval ==
    ASSUME DoublingFits, NEW n \in Nat, n > 0
    PROVE  \A d \in Doubled(n) : d \in Nat /\ d >= PollInterval
<1> DEFINE e == Smaller(n - 1, maxBackoffExponent)
<1>1. e \in 0..maxBackoffExponent
  BY DEF Smaller, maxBackoffExponent
<1>2. PollInterval * 2^e \in PollInterval..MaxDuration
  BY <1>1 DEF DoublingFits
<1> HIDE DEF e
<1>3. Converted(PollInterval * 2^e) = {PollInterval * 2^e}
  BY <1>2, IntervalAssumption DEF Converted
<1> QED
  BY <1>2, <1>3, IntervalAssumption DEF Doubled, e

\* After a failure, nextDelay is a positive wait of at most the cap.
LEMMA NextDelayBounded ==
    ASSUME DoublingFits, NEW n \in Nat, n > 0,
           NEW retryAfter \in Int, NEW d \in nextDelay(n, retryAfter)
    PROVE  d \in 1..MaxBackoff
<1>1. CASE retryAfter > 0
  BY <1>1, IntervalAssumption DEF nextDelay, Smaller
<1>2. CASE ~(retryAfter > 0)
  <2>1. PICK nominal \in Doubled(n) :
           \E x \in jitter(Smaller(nominal, MaxBackoff)) : d = Smaller(x, MaxBackoff)
    BY <1>2 DEF nextDelay, Exponential
  <2>2. PICK x \in jitter(Smaller(nominal, MaxBackoff)) : d = Smaller(x, MaxBackoff)
    BY <2>1
  <2>3. nominal \in Nat /\ nominal >= PollInterval
    BY DoubledAtLeastInterval
  <2>4. Smaller(nominal, MaxBackoff) \in 2..MaxBackoff
    BY <2>3, IntervalAssumption DEF Smaller
  <2>5. x \in Nat /\ x > 0
    BY <2>4, JitterPositive
  <2> QED
    BY <2>2, <2>5, IntervalAssumption DEF Smaller
<1> QED
  BY <1>1, <1>2

\* parseRetryAfter always yields a duration, possibly a negative one.
LEMMA ParsedIsInteger ==
    ASSUME NEW a \in Nat
    PROVE  parseRetryAfter(a) \in Int
<1>1. 2 * (MaxDuration + 1) \in Nat /\ 2 * (MaxDuration + 1) > 0
  BY IntervalAssumption
<1>2. (a + MaxDuration + 1) % (2 * (MaxDuration + 1)) \in Int
  BY <1>1, IntervalAssumption
<1> QED
  BY <1>2, IntervalAssumption DEF parseRetryAfter

\* The hard guarantee of runner.go: however long the outage lasts and whatever
\* the API asks for, the wait after a failed poll is positive and at most
\* maxBackoff (nextDelay).
THEOREM BackoffTheorem ==
    ASSUME DoublingFits
    PROVE  PaceSpec => []BackoffBounded
<1> DEFINE Inv == streak \in Nat /\ BackoffBounded
<1>1. PaceInit => Inv
  BY DEF PaceInit, BackoffBounded
<1>2. Inv /\ [PaceNext]_pace => Inv'
  <2> SUFFICES ASSUME Inv, [PaceNext]_pace
               PROVE  Inv'
    OBVIOUS
  <2>1. CASE Succeed
    BY <2>1 DEF Succeed, BackoffBounded
  <2>2. ASSUME NEW a \in Asked, Fail(a)
        PROVE  Inv'
    <3>1. streak' \in Nat /\ streak' > 0
      BY <2>2 DEF Fail
    <3>2. parseRetryAfter(a) \in Int
      BY FailureAssumption, ParsedIsInteger
    <3>3. delay' \in nextDelay(streak', parseRetryAfter(a))
      BY <2>2 DEF Fail
    <3>4. delay' \in 1..MaxBackoff
      BY <3>1, <3>2, <3>3, NextDelayBounded
    <3> QED
      BY <3>1, <3>4 DEF BackoffBounded
  <2>3. CASE UNCHANGED pace
    BY <2>3 DEF pace, BackoffBounded
  <2> QED
    BY <2>1, <2>2, <2>3 DEF PaceNext
<1>3. Inv => BackoffBounded
  OBVIOUS
<1> QED
  BY <1>1, <1>2, <1>3, PTL DEF PaceSpec

\* The powers of two up to the bound of the exponent.
LEMMA PowersDouble ==
    ASSUME NEW e \in 0..19
    PROVE  2^(e + 1) = 2 * 2^e /\ 2^e \in Nat
<1>. DEFINE P(x) == 2^x
<1>1. /\ P(0) = 1 /\ P(1) = 2 /\ P(2) = 4 /\ P(3) = 8
      /\ P(4) = 16 /\ P(5) = 32 /\ P(6) = 64 /\ P(7) = 128
      /\ P(8) = 256 /\ P(9) = 512 /\ P(10) = 1024 /\ P(11) = 2048
      /\ P(12) = 4096 /\ P(13) = 8192 /\ P(14) = 16384 /\ P(15) = 32768
      /\ P(16) = 65536 /\ P(17) = 131072 /\ P(18) = 262144 /\ P(19) = 524288
      /\ P(20) = 1048576
  OBVIOUS
<1>. HIDE DEF P
<1>2. P(e + 1) = 2 * P(e) /\ P(e) \in Nat
  <2>1. e \in {0, 1, 2, 3, 4, 5, 6, 7, 8, 9, 10, 11, 12, 13, 14, 15, 16, 17, 18, 19}
    OBVIOUS
  <2>. QED  BY <1>1, <2>1
<1>. QED  BY <1>2 DEF P

\* One failure more doubles the nominal delay, or it is past the cap already.
LEMMA DoubledGrows ==
    ASSUME DoublingFits, CapReached, NEW n \in Nat, n > 0
    PROVE  \E x \in Nat, y \in Nat :
              /\ Doubled(n) = {x} /\ Doubled(n + 1) = {y} /\ x >= 2
              /\ y = 2 * x \/ MaxBackoff <= y
<1>. DEFINE N(e) == PollInterval * 2^e
<1>1. \A e \in 0..20 : N(e) \in Nat /\ N(e) >= 2 /\ Converted(N(e)) = {N(e)}
  <2>1. \A e \in 0..20 : N(e) \in PollInterval..MaxDuration
    BY DEF DoublingFits, maxBackoffExponent
  <2>. HIDE DEF N
  <2>. QED  BY <2>1, IntervalAssumption DEF Converted
<1>2. CASE n <= 20
  <2>1. n - 1 \in 0..19 /\ Smaller(n - 1, 20) = n - 1 /\ Smaller((n + 1) - 1, 20) = (n - 1) + 1
    BY <1>2 DEF Smaller
  <2>2. Doubled(n) = Converted(N(n - 1)) /\ Doubled(n + 1) = Converted(N((n - 1) + 1))
    BY <2>1, Zenon DEF Doubled, maxBackoffExponent
  <2>3. N((n - 1) + 1) = 2 * N(n - 1)
    <3>. DEFINE a == 2^(n - 1)
                b == 2^((n - 1) + 1)
    <3>1. b = 2 * a /\ a \in Nat
      BY <2>1, PowersDouble
    <3>. HIDE DEF a, b
    <3>2. PollInterval * b = 2 * (PollInterval * a)
      BY <3>1, IntervalAssumption
    <3>. QED  BY <3>2 DEF a, b
  <2>4. n - 1 \in 0..20 /\ (n - 1) + 1 \in 0..20
    BY <2>1
  <2>. HIDE DEF N
  <2>. QED  BY <1>1, <2>2, <2>3, <2>4
<1>3. CASE n > 20
  <2>1. Smaller(n - 1, 20) = 20 /\ Smaller((n + 1) - 1, 20) = 20
    BY <1>3 DEF Smaller
  <2>2. Doubled(n) = Converted(N(20)) /\ Doubled(n + 1) = Converted(N(20))
    BY <2>1, Zenon DEF Doubled, maxBackoffExponent
  <2>3. MaxBackoff <= N(20)
    BY Zenon DEF CapReached, maxBackoffExponent
  <2>4. 20 \in 0..20
    OBVIOUS
  <2>. HIDE DEF N
  <2>. QED  BY <1>1, <2>2, <2>3, <2>4
<1>. QED  BY <1>2, <1>3

\* What jitter makes of a delay of two units or more that fits.
LEMMA JitterWithin ==
    ASSUME NEW c \in 2..MaxBackoff, NEW x \in jitter(c)
    PROVE  x \in Nat /\ (9 * c) \div 10 <= x /\ x <= (11 * c) \div 10
<1>1. PICK y \in ((9 * c) \div 10)..((11 * c) \div 10) : x \in Converted(y)
  BY IntervalAssumption DEF jitter
<1>2. (9 * c) \div 10 \in Nat /\ (11 * c) \div 10 \in Nat /\ (11 * c) \div 10 <= 2 * c
  BY IntervalAssumption
<1>3. y \in Nat /\ y <= MaxDuration
  BY <1>1, <1>2, IntervalAssumption
<1>. QED  BY <1>1, <1>2, <1>3 DEF Converted

\* A failure more never shortens the wait below the jitter of the cap.
LEMMA ExponentialGrows ==
    ASSUME DoublingFits, CapReached, NEW n \in Nat, n > 0,
           NEW d \in Exponential(n), NEW longer \in Exponential(n + 1)
    PROVE  longer >= Smaller(d, (9 * MaxBackoff) \div 10)
<1>1. PICK x \in Nat, y \in Nat :
         /\ Doubled(n) = {x} /\ Doubled(n + 1) = {y} /\ x >= 2
         /\ y = 2 * x \/ MaxBackoff <= y
  BY DoubledGrows
<1>. DEFINE c == Smaller(x, MaxBackoff)
            k == Smaller(y, MaxBackoff)
<1>2. c \in 2..MaxBackoff /\ k \in 2..MaxBackoff /\ (k = MaxBackoff \/ k = 2 * c)
  <2>0. ASSUME NEW z \in Nat
        PROVE  /\ MaxBackoff <= z => Smaller(z, MaxBackoff) = MaxBackoff
               /\ z < MaxBackoff => Smaller(z, MaxBackoff) = z
    BY IntervalAssumption DEF Smaller
  <2>1. CASE MaxBackoff <= y
    <3>1. k = MaxBackoff
      BY <1>1, <2>0, <2>1
    <3>2. c = MaxBackoff \/ (c = x /\ x < MaxBackoff)
      <4>1. MaxBackoff <= x \/ x < MaxBackoff
        BY <1>1, IntervalAssumption
      <4>. QED  BY <1>1, <2>0, <4>1
    <3>. HIDE DEF c, k
    <3>. QED  BY <1>1, <3>1, <3>2, IntervalAssumption
  <2>2. CASE ~(MaxBackoff <= y)
    <3>1. y = 2 * x /\ y < MaxBackoff /\ x < MaxBackoff
      BY <1>1, <2>2, IntervalAssumption
    <3>2. c = x /\ k = y
      BY <1>1, <2>0, <3>1
    <3>. HIDE DEF c, k
    <3>. QED  BY <1>1, <3>1, <3>2, IntervalAssumption
  <2>. QED  BY <2>1, <2>2
<1>. HIDE DEF c, k
<1>0. ASSUME NEW i, NEW nominal, Doubled(i) = {nominal}
      PROVE  \A w \in Exponential(i) :
                \E z \in jitter(Smaller(nominal, MaxBackoff)) : w = Smaller(z, MaxBackoff)
  BY <1>0, Zenon DEF Exponential
<1>3. PICK u \in jitter(c) : d = Smaller(u, MaxBackoff)
  <2>1. Doubled(n) = {x}
    BY <1>1
  <2>2. \A w \in Exponential(n) :
           \E z \in jitter(Smaller(x, MaxBackoff)) : w = Smaller(z, MaxBackoff)
    BY <1>0, <2>1
  <2>. QED  BY <2>2 DEF c
<1>4. PICK v \in jitter(k) : longer = Smaller(v, MaxBackoff)
  <2>1. Doubled(n + 1) = {y}
    BY <1>1
  <2>2. \A w \in Exponential(n + 1) :
           \E z \in jitter(Smaller(y, MaxBackoff)) : w = Smaller(z, MaxBackoff)
    BY <1>0, <2>1
  <2>. QED  BY <2>2 DEF k
<1>5. /\ u \in Nat /\ u <= (11 * c) \div 10
      /\ v \in Nat /\ (9 * k) \div 10 <= v
  BY <1>2, <1>3, <1>4, JitterWithin
<1>6. (9 * MaxBackoff) \div 10 \in Nat /\ (9 * MaxBackoff) \div 10 <= MaxBackoff
  BY IntervalAssumption
<1>7. CASE k = MaxBackoff
  BY <1>3, <1>4, <1>5, <1>6, <1>7, IntervalAssumption DEF Smaller
<1>8. CASE k = 2 * c
  <2>1. u <= v
    BY <1>2, <1>5, <1>8, IntervalAssumption
  <2>. QED  BY <1>3, <1>4, <1>5, <1>6, <2>1, IntervalAssumption DEF Smaller
<1>. QED  BY <1>2, <1>7, <1>8

\* The longer the outage, the slower the polls: a further failure without a
\* Retry-After never shortens the wait, except within the jitter of the cap,
\* for every interval whose largest doubling reaches the cap and is a duration
\* (nextDelay, jitter).
THEOREM BackoffGrowsTheorem ==
    ASSUME DoublingFits, CapReached
    PROVE  PaceSpec => BackoffGrows
<1>. DEFINE Inv == /\ streak \in Nat
                   /\ streak > 0 /\ asked = 0 => delay \in Exponential(streak)
            Grows == streak > 0 /\ asked = 0 /\ streak' > streak /\ asked' = 0
                        => delay' >= Smaller(delay, (9 * MaxBackoff) \div 10)
<1>1. PaceInit => Inv
  BY DEF PaceInit
<1>2. ASSUME NEW a \in Asked, Fail(a), Inv
      PROVE  /\ streak' = streak + 1 /\ streak' \in Nat /\ streak' > 0
             /\ asked' = 0 => delay' \in Exponential(streak')
  <2>1. /\ streak' = streak + 1 /\ asked' = a
        /\ delay' \in nextDelay(streak', parseRetryAfter(a))
    BY <1>2 DEF Fail
  <2>2. streak' \in Nat /\ streak' > 0
    BY <1>2, <2>1
  <2>3. parseRetryAfter(0) = 0
    <3>1. (0 + MaxDuration + 1) % (2 * (MaxDuration + 1)) = MaxDuration + 1
      BY IntervalAssumption
    <3>. QED  BY <3>1, IntervalAssumption DEF parseRetryAfter
  <2>4. asked' = 0 => delay' \in Exponential(streak')
    BY <2>1, <2>2, <2>3 DEF nextDelay
  <2>. QED  BY <2>1, <2>2, <2>4
<1>3. Inv /\ [PaceNext]_pace => Inv' /\ Grows
  <2>. SUFFICES ASSUME Inv, [PaceNext]_pace PROVE Inv' /\ Grows
    OBVIOUS
  <2>1. CASE Succeed
    <3>1. streak' = 0
      BY <2>1 DEF Succeed
    <3>. QED  BY <3>1
  <2>2. ASSUME NEW a \in Asked, Fail(a) PROVE Inv' /\ Grows
    <3>1. /\ streak' = streak + 1 /\ streak' \in Nat /\ streak' > 0
          /\ asked' = 0 => delay' \in Exponential(streak')
      BY <1>2, <2>2
    <3>2. Grows
      <4>. SUFFICES ASSUME streak > 0, asked = 0, asked' = 0
                    PROVE  delay' >= Smaller(delay, (9 * MaxBackoff) \div 10)
        OBVIOUS
      <4>1. delay \in Exponential(streak) /\ delay' \in Exponential(streak + 1)
        BY <3>1
      <4>. QED  BY <4>1, ExponentialGrows
    <3>. QED  BY <3>1, <3>2
  <2>3. CASE UNCHANGED pace
    BY <2>3 DEF pace
  <2>. QED  BY <2>1, <2>2, <2>3 DEF PaceNext
<1>. QED  BY <1>1, <1>3, PTL DEF PaceSpec, BackoffGrows
=============================================================================
