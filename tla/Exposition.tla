----------------------------- MODULE Exposition -----------------------------
(***************************************************************************)
(* internal/metrics: what the loop records of its polls, one series after  *)
(* the other, and what the admin server says of it meanwhile: a scrape of  *)
(* /metrics (WriteExposition) and a probe of /readyz (StaleAfter).         *)
(*                                                                         *)
(* Durations come from the monotonic clock `now`, timestamps from the wall *)
(* clock, which may be stepped.  Recording and a request take less than a  *)
(* unit of time; the call, the report and the pause take time, within      *)
(* their limits, and where these allow 0 polls may overtake a request.     *)
(* How a labelled counter works inside is the matter of CounterVec: here   *)
(* it is a number.                                                         *)
(***************************************************************************)
EXTENDS Integers, Sequences, FiniteSets

CONSTANTS
    Interval,    \* PollInterval
    Jitter,      \* the most jitter adds or takes
    Timeout,     \* of the HTTP client
    ReportTime,  \* the most persist and report take: notifyTimeout, and the store
    Backoff,     \* the delays after a failure
    Bounds,      \* of the histogram
    Epoch,       \* the time of the start
    MaxPolls, MaxTime, MaxStep  \* bounds: polls, time, total of clock steps

ASSUME TimeAssumption ==
    /\ Interval \in Nat /\ Jitter \in Nat /\ Timeout \in Nat /\ ReportTime \in Nat
    /\ Epoch \in Nat /\ MaxPolls \in Nat /\ MaxTime \in Nat /\ MaxStep \in Nat
    /\ Backoff \subseteq Nat /\ Bounds \subseteq Nat
    /\ Jitter <= Interval
    /\ MaxStep < Epoch   \* no timestamp is 0

VARIABLES
    now,       \* the monotonic clock
    offset,    \* wall clock minus monotonic clock
    phase,     \* of the loop: "wait", "call", "record" or "report"
    due,       \* the end of the wait, or the latest end of the call or report
    start,     \* of the poll: time.Now(), both clocks
    err,       \* did it fail
    todo,      \* the writes that are left of Observe*
    m,         \* the series, the histogram as three of them
    unread,    \* the series the scrape has still to read
    shown,     \* what it has read
    probe,     \* of /readyz: "none", "read", and then its verdict
    read,      \* the timestamp it has read, and (history) goodAt then
    \* history
    durations, \* of the polls observed
    stamps,    \* the timestamps of the good ones
    stepped,   \* the total of the steps of the wall clock
    goodAt,    \* the start of the latest good poll that is recorded
    age        \* of the one the probe has read, when the verdict fell

clocks == <<now, offset, stepped>>
loop == <<phase, due, start, err, todo, m, durations, stamps, goodAt>>
scrape == <<unread, shown>>
ready == <<probe, read, age>>
vars == <<clocks, loop, scrape, ready>>

\* The duration of the poll that is being recorded.
duration == durations[Len(durations)]

-----------------------------------------------------------------------------
(* What is written.                                                        *)

ObservePollSuccess ==
    <<"success", "sum", "total", "counts", "inCity", "inFence", "skipped", "lastPoll", "lastSuccess">>

ObserveDiff == <<"new", "gone">>

\* Mutant: a failed poll refreshes the time of the last good one.
ObservePollErrorFresh == <<"error", "kind", "sum", "total", "counts", "lastPoll", "lastSuccess">>

ObservePollError == <<"error", "kind", "sum", "total", "counts", "lastPoll">>

Series == {"success", "error", "kind", "sum", "total", "counts", "inCity", "inFence",
           "skipped", "lastPoll", "lastSuccess", "new", "gone"}

\* The value a write gives its series.  A gauge stands for the number of the
\* poll that has set it, a counter of vehicles for the polls that have added.
Written(s) ==
    CASE s = "sum" -> m[s] + duration
      [] s = "counts" -> [b \in Bounds |-> m[s][b] + (IF duration <= b THEN 1 ELSE 0)]
      [] s \in {"lastPoll", "lastSuccess"} -> start.wall
      [] s \in {"inCity", "inFence"} -> m["success"]
      [] OTHER -> m[s] + 1

\* The poller is inside Histogram.Observe, with h.mu.
Locked == todo # << >> /\ Head(todo) \in {"total", "counts"}

-----------------------------------------------------------------------------
(* The clocks and the loop.                                                *)

Init ==
    /\ now = Epoch /\ offset = 0 /\ stepped = 0
    /\ phase = "wait" /\ due = Epoch
    /\ start = [real |-> Epoch, wall |-> Epoch] /\ err = FALSE
    /\ todo = << >>
    /\ m = [s \in Series |-> IF s = "counts" THEN [b \in Bounds |-> 0] ELSE 0]
    /\ unread = << >> /\ shown = [s \in {} |-> 0]
    /\ probe = "none" /\ read = [wall |-> 0, real |-> Epoch] /\ age = 0
    /\ durations = << >> /\ stamps = << >> /\ goodAt = Epoch

\* No request is being served.  Requests only read, so that one of them, at any
\* time, stands for all.
Idle == probe = "none" /\ DOMAIN shown = {} /\ unread = << >>

Tick ==
    /\ now < due /\ now < MaxTime
    /\ phase # "record" /\ Idle
    /\ now' = now + 1
    /\ UNCHANGED <<offset, stepped, loop, scrape, ready>>

\* The wall clock is set, by NTP or by hand.
StepClock(d) ==
    /\ stepped + d <= MaxStep
    /\ stepped' = stepped + d
    /\ offset' \in {offset + d, offset - d}
    /\ UNCHANGED <<now, loop, scrape, ready>>

StartPoll ==
    /\ phase = "wait" /\ now = due
    /\ Len(durations) < MaxPolls
    /\ phase' = "call" /\ due' = now + Timeout
    /\ start' = [real |-> now, wall |-> now + offset]
    /\ UNCHANGED <<clocks, err, todo, m, durations, stamps, goodAt, scrape, ready>>

\* The client returns a result, and Update its diff.
Good ==
    /\ phase = "call"
    /\ phase' = "record" /\ due' = now + ReportTime
    /\ err' = FALSE
    /\ todo' = ObservePollSuccess \o ObserveDiff
    /\ durations' = Append(durations, now - start.real)
    /\ stamps' = Append(stamps, start.wall)
    /\ UNCHANGED <<clocks, start, m, goodAt, scrape, ready>>

\* It returns an error: nothing is reported.
Failed ==
    /\ phase = "call"
    /\ phase' = "record" /\ due' = now
    /\ err' = TRUE
    /\ todo' = ObservePollError
    /\ durations' = Append(durations, now - start.real)
    /\ UNCHANGED <<clocks, start, m, stamps, goodAt, scrape, ready>>

\* One write: Inc, Add, Set, SetTime, or a line of Histogram.Observe.
Write ==
    /\ phase = "record"
    /\ m' = [m EXCEPT ![Head(todo)] = Written(Head(todo))]
    /\ goodAt' = IF Head(todo) = "lastSuccess" /\ ~err THEN start.real ELSE goodAt
    /\ todo' = Tail(todo)
    /\ phase' = IF todo' = << >> THEN "report" ELSE "record"
    /\ UNCHANGED <<clocks, due, start, err, durations, stamps, scrape, ready>>

\* nextDelay, after persist and report.
Pause ==
    /\ phase = "report"
    /\ phase' = "wait"
    /\ \E d \in IF err THEN Backoff ELSE (Interval - Jitter)..(Interval + Jitter) :
          due' = now + d
    /\ UNCHANGED <<clocks, start, err, todo, m, durations, stamps, goodAt, scrape, ready>>

-----------------------------------------------------------------------------
(* The admin server.                                                       *)

\* Mutant: the histogram comes before the counters of the polls.
ExpositionsHistogramFirst ==
    {<<"histogram", p[1], p[2], "kind", "inCity", "inFence", "lastPoll", "lastSuccess",
       "new", "gone", "skipped">> : p \in {<<"success", "error">>}}

\* The series in the order of WriteExposition.  The two of polls_total come
\* from a map, in any order; each of notifications_total and store_writes_total
\* stands alone and is left out.
Expositions ==
    {p \o <<"kind", "histogram", "inCity", "inFence", "lastPoll", "lastSuccess",
            "new", "gone", "skipped">> : p \in {<<"success", "error">>, <<"error", "success">>}}

ScrapeStarts ==
    /\ Idle
    /\ unread' \in Expositions
    /\ UNCHANGED <<clocks, loop, shown, ready>>

\* The series that are read at once: the histogram is copied under its lock.
Read(s) == IF s = "histogram" THEN {"sum", "total", "counts"} ELSE {s}

\* Mutant: the histogram is copied without its lock.
ScrapeReadsUnlocked ==
    /\ unread # << >>
    /\ unread' = Tail(unread)
    /\ shown' = [s \in DOMAIN shown \cup Read(Head(unread)) |->
                    IF s \in DOMAIN shown THEN shown[s] ELSE m[s]]
    /\ UNCHANGED <<clocks, loop, ready>>

ScrapeReads ==
    /\ unread # << >>
    /\ Head(unread) = "histogram" => ~Locked
    /\ unread' = Tail(unread)
    /\ shown' = [s \in DOMAIN shown \cup Read(Head(unread)) |->
                    IF s \in DOMAIN shown THEN shown[s] ELSE m[s]]
    /\ UNCHANGED <<clocks, loop, ready>>

ScrapeEnds ==
    /\ DOMAIN shown # {} /\ unread = << >>
    /\ shown' = [s \in {} |-> 0]
    /\ UNCHANGED <<clocks, loop, unread, ready>>

\* Mutant: four intervals.
MaxAgeFour == 4 * Interval

\* The argument of StaleAfter in startAdminServer.
MaxAge == 5 * Interval

\* The longest time between the starts of two good polls, and a call.
Slack == 2 * Timeout + ReportTime + Interval + Jitter

ProbeReads ==
    /\ Idle
    /\ probe' = "read"
    /\ read' = [wall |-> m["lastSuccess"], real |-> goodAt]
    /\ UNCHANGED <<clocks, loop, scrape, age>>

\* time.Since on a time without a monotonic reading: by the wall clock.
ProbeAnswers ==
    /\ probe = "read"
    /\ probe' = CASE read.wall = 0 -> "never"
                  [] read.wall # 0 /\ now + offset - read.wall > MaxAge -> "stale"
                  [] OTHER -> "ready"
    /\ age' = now - read.real
    /\ UNCHANGED <<clocks, loop, scrape, read>>

ProbeEnds ==
    /\ probe \in {"never", "stale", "ready"}
    /\ probe' = "none" /\ read' = [wall |-> 0, real |-> Epoch] /\ age' = 0
    /\ UNCHANGED <<clocks, loop, scrape>>

Next ==
    \/ Tick
    \/ \E d \in 1..MaxStep : StepClock(d)
    \/ StartPoll \/ Good \/ Failed \/ Write \/ Pause
    \/ ScrapeStarts \/ ScrapeReads \/ ScrapeEnds
    \/ ProbeReads \/ ProbeAnswers \/ ProbeEnds

Spec == Init /\ [][Next]_vars

-----------------------------------------------------------------------------

\* The units of time these polls have taken, by poll, and those of them that
\* were no longer than b.
Units(polls) == UNION {{i} \X (1..durations[i]) : i \in polls}
NoLonger(polls, b) == {i \in polls : durations[i] <= b}

\* A histogram never shows a poll by halves: its sum, its count and all its
\* buckets are those of the same first polls, whatever the loop is recording
\* meanwhile (Histogram.Observe, writeHistogram).
HistogramWhole ==
    "total" \in DOMAIN shown =>
        LET polls == 1..shown["total"]
        IN  /\ shown["sum"] = Cardinality(Units(polls))
            /\ \A b \in Bounds : shown["counts"][b] = Cardinality(NoLonger(polls, b))

\* Series of one scrape may be of different moments, and of different polls,
\* but in one direction only: what comes later in it lags behind the polls it
\* counts by no more than the one that is being recorded.  So no alert that
\* divides or compares them sees a poll without its duration, its kind or its
\* time for longer than that poll takes to record (WriteExposition, Observe*).
SkewBounded ==
    DOMAIN shown # {} /\ unread = << >> =>
        /\ shown["total"] >= shown["success"] + shown["error"] - 1
        /\ shown["kind"] >= shown["error"] - 1
        /\ \A s \in {"inCity", "inFence", "skipped", "new", "gone"} :
              shown[s] >= shown["success"] - 1
        /\ shown["success"] > 1 =>
              \E i \in (shown["success"] - 1)..Len(stamps) : shown["lastSuccess"] = stamps[i]

\* A healthy program stays ready although its clock is set: while all polls are
\* good, a probe says "stale" only after steps of the wall clock that exceed
\* what is left of the five intervals when every call, report and pause takes
\* as long as it may (StaleAfter, startAdminServer).
ReadyDespiteSteps == probe = "stale" => m["error"] > 0 \/ stepped + Slack > 5 * Interval

\* A verdict is wrong by no more than the wall clock was stepped, also while a
\* poll is being recorded: "ready" is said only when a poll that succeeded has
\* started in the time before, however many have failed since, and "stale" only
\* when none has (StaleAfter).
VerdictIsTrue ==
    /\ probe = "ready" => stamps # << >> /\ age <= MaxAge + stepped
    /\ probe = "stale" => age + stepped > MaxAge
=============================================================================
