-------------------------- MODULE ExpositionProofs --------------------------
(***************************************************************************)
(* The probe: a verdict of /readyz is wrong by no more than the wall clock *)
(* was stepped, and a healthy program is ready within that.  Two arguments *)
(* meet in its answer.  Clocks: what the wall clock says of a moment is    *)
(* off by no more than the steps since.  Deadlines: from the start of a    *)
(* good poll, the call, the report, the pause and the next call take Slack *)
(* units at most, and then the start of the next one counts; Deadlines     *)
(* says for each phase how much of Slack may be used up.                   *)
(*                                                                         *)
(* The scrape: its histogram is whole and its series are one poll apart at *)
(* most.  A series lags behind the polls by what is left to write of it.   *)
(***************************************************************************)
EXTENDS Exposition, FiniteSetTheorems, SequenceTheorems, TLAPS

\* No failure is recorded.
Calm == m["error"] = 0

Latest == m["lastSuccess"]

\* At most d units between the latest good poll, if there is one, and t.
Within(t, d) == Latest = 0 \/ t <= goodAt + d

\* The wall clock has this time for that moment, give or take its steps.
Close(real, wall) ==
    /\ real + offset - wall <= stepped
    /\ wall - real - offset <= stepped

Pending == \E i \in 1..Len(todo) : todo[i] = "lastSuccess"

\* The poll that is being recorded, or was the last one, counts as the latest.
Counts == Latest # 0 /\ goodAt = start.real

Types ==
    /\ now \in Nat /\ Epoch <= now /\ due \in Nat
    /\ stepped \in Nat /\ stepped <= MaxStep
    /\ offset \in Int /\ offset <= stepped /\ 0 <= offset + stepped
    /\ phase \in {"wait", "call", "record", "report"}
    /\ start.real \in Nat /\ start.wall \in Int /\ start.wall > 0
    /\ err \in BOOLEAN
    /\ todo \in Seq(Series) /\ (phase = "record" => todo # << >>)
    /\ m = [s \in Series |-> m[s]]
    /\ m["error"] \in Nat /\ m["lastSuccess"] \in Int
    /\ stamps \in Seq(Int) /\ goodAt \in Nat
    /\ read.wall \in Int /\ read.real \in Int /\ age \in Int

Clocks ==
    /\ Close(start.real, start.wall)
    /\ Latest # 0 => Close(goodAt, Latest) /\ stamps # << >>
    /\ probe = "read" /\ read.wall # 0 => Close(read.real, read.wall) /\ stamps # << >>
    /\ phase = "record" => IF err THEN ~Pending ELSE stamps # << >>

\* Of a program that is calm.
Deadlines ==
    /\ Within(now, Slack)
    /\ phase # "record" => ~err
    /\ phase = "wait" => now <= due /\ Within(due, Slack - Timeout)
    /\ phase = "call" => /\ start.real <= now /\ now <= due
                         /\ due = start.real + Timeout
                         /\ Within(start.real, Slack - Timeout)
    /\ phase = "record" /\ err => Head(todo) = "error"
    /\ phase = "record" /\ ~err =>
          /\ due = now + ReportTime /\ now <= start.real + Timeout
          /\ Pending \/ Counts
    /\ phase = "report" =>
          now <= due /\ due <= start.real + Timeout + ReportTime /\ Counts

ProbeFresh == probe = "read" => read.wall = 0 \/ now <= read.real + Slack

IInv ==
    /\ Types /\ Clocks
    /\ Calm => Deadlines /\ ProbeFresh
    /\ VerdictIsTrue /\ ReadyDespiteSteps

-----------------------------------------------------------------------------

LEMMA SlackIsNat == Slack \in Nat /\ Slack - Timeout \in Nat /\ MaxAge \in Nat
  BY TimeAssumption DEF Slack, MaxAge

\* The sequences of writes, as far as they matter.
LEMMA Recorded ==
    /\ ObservePollSuccess \o ObserveDiff \in Seq(Series)
    /\ Len(ObservePollSuccess \o ObserveDiff) = 11
    /\ (ObservePollSuccess \o ObserveDiff)[9] = "lastSuccess"
    /\ ObservePollError \in Seq(Series)
    /\ ObservePollError # << >> /\ Head(ObservePollError) = "error"
    /\ \A i \in 1..Len(ObservePollError) : ObservePollError[i] # "lastSuccess"
<1>1. ObservePollSuccess \in Seq(Series) /\ Len(ObservePollSuccess) = 9
      /\ ObservePollSuccess[9] = "lastSuccess"
  BY DEF ObservePollSuccess, Series
<1>2. ObserveDiff \in Seq(Series) /\ Len(ObserveDiff) = 2
  BY DEF ObserveDiff, Series
<1>3. ObservePollError \in Seq(Series) /\ ObservePollError # << >> /\ Head(ObservePollError) = "error"
  BY DEF ObservePollError, Series
<1>4. ObservePollSuccess \o ObserveDiff \in Seq(Series)
  BY <1>1, <1>2
<1>5. Len(ObservePollSuccess \o ObserveDiff) = Len(ObservePollSuccess) + Len(ObserveDiff)
  BY <1>1, <1>2, ConcatProperties
<1>6. \A i \in 1..(Len(ObservePollSuccess) + Len(ObserveDiff)) :
        (ObservePollSuccess \o ObserveDiff)[i] =
           IF i <= Len(ObservePollSuccess) THEN ObservePollSuccess[i]
           ELSE ObserveDiff[i - Len(ObservePollSuccess)]
  BY <1>1, <1>2, ConcatProperties
<1>7. 9 \in 1..(9 + 2) /\ 9 <= 9 /\ 9 + 2 = 11
  OBVIOUS
<1>8. Len(ObservePollSuccess \o ObserveDiff) = 11
  BY <1>1, <1>2, <1>5, <1>7
<1>9. (ObservePollSuccess \o ObserveDiff)[9] = "lastSuccess"
  BY <1>1, <1>2, <1>6, <1>7, Zenon
<1>10. \A i \in 1..Len(ObservePollError) : ObservePollError[i] # "lastSuccess"
  BY DEF ObservePollError
<1>. QED  BY <1>3, <1>4, <1>8, <1>9, <1>10, Zenon

\* What a write does to the two series of the invariant.
LEMMA WriteEffect ==
    ASSUME Types, Write
    PROVE  /\ m' = [s \in Series |-> m'[s]]
           /\ m'["error"] = IF Head(todo) = "error" THEN m["error"] + 1 ELSE m["error"]
           /\ m'["lastSuccess"] = IF Head(todo) = "lastSuccess" THEN start.wall ELSE m["lastSuccess"]
<1>1. Head(todo) \in Series
  BY DEF Types, Write
<1>2. "error" \in Series /\ "lastSuccess" \in Series
  BY DEF Series
<1>3. m' = [s \in Series |-> IF s = Head(todo) THEN Written(s) ELSE m[s]]
  <2>1. m' = [m EXCEPT ![Head(todo)] = Written(Head(todo))]
    BY DEF Write
  <2>. HIDE DEF Written
  <2>. QED  BY <2>1, <1>1 DEF Types
<1>4. Written("error") = m["error"] + 1
  BY DEF Written
<1>5. Written("lastSuccess") = start.wall
  BY DEF Written
<1>. HIDE DEF Written
<1>. QED  BY <1>1, <1>2, <1>3, <1>4, <1>5

LEMMA InitIInv == Init => IInv
<1>. SUFFICES ASSUME Init PROVE IInv
  OBVIOUS
<1>1. "error" \in Series /\ "lastSuccess" \in Series
  BY DEF Series
<1>2. m["error"] = 0 /\ m["lastSuccess"] = 0 /\ m = [s \in Series |-> m[s]]
  BY <1>1 DEF Init
<1>3. Types
  <2>1. todo \in Seq(Series) /\ stamps \in Seq(Int)
    BY DEF Init
  <2>2. /\ start.real \in Nat /\ start.wall \in Int /\ start.wall > 0
        /\ read.wall \in Int /\ read.real \in Int /\ age \in Int /\ goodAt \in Nat
    BY TimeAssumption DEF Init
  <2>3. /\ now \in Nat /\ due \in Nat /\ stepped \in Nat /\ offset \in Int
        /\ Epoch <= now /\ stepped <= MaxStep /\ offset <= stepped /\ 0 <= offset + stepped
    BY TimeAssumption DEF Init
  <2>4. phase = "wait" /\ err = FALSE
    BY DEF Init
  <2>5. m["error"] \in Nat /\ m["lastSuccess"] \in Int
    BY <1>2
  <2>6. phase \in {"wait", "call", "record", "report"} /\ err \in BOOLEAN /\ phase # "record"
    BY <2>4
  <2>. QED  BY <1>2, <2>1, <2>2, <2>3, <2>5, <2>6, Zenon DEF Types
<1>4. Clocks /\ Deadlines
  BY <1>2, TimeAssumption DEF Init, Clocks, Close, Deadlines, Within, Latest
<1>. QED  BY <1>3, <1>4 DEF Init, IInv, ProbeFresh, VerdictIsTrue, ReadyDespiteSteps

-----------------------------------------------------------------------------

\* The types, and that a failure once recorded stays recorded.
LEMMA StepTypes ==
    ASSUME Types, [Next]_vars
    PROVE  Types' /\ (Calm' => Calm)
<1>. USE TimeAssumption
<1>0. /\ m["error"] \in Nat /\ m["lastSuccess"] \in Int
      /\ now \in Nat /\ Epoch <= now /\ due \in Nat
      /\ stepped \in Nat /\ stepped <= MaxStep
      /\ offset \in Int /\ offset <= stepped /\ 0 <= offset + stepped
      /\ start.real \in Nat /\ start.wall \in Int /\ goodAt \in Nat /\ age \in Int
      /\ read.wall \in Int /\ read.real \in Int
  BY DEF Types
<1>1. CASE Tick
  <2>1. now' \in Nat /\ Epoch <= now'
    BY <1>0, <1>1 DEF Tick
  <2>. QED  BY <1>0, <2>1, <1>1 DEF Tick, Types, Calm, loop, ready
<1>2. ASSUME NEW d \in 1..MaxStep, StepClock(d) PROVE Types' /\ (Calm' => Calm)
  <2>1. stepped' = stepped + d /\ offset' \in {offset + d, offset - d} /\ stepped + d <= MaxStep
    BY <1>2 DEF StepClock
  <2>2. d \in Nat
    BY <1>2
  <2>3. /\ stepped' \in Nat /\ stepped' <= MaxStep /\ offset' \in Int
        /\ offset' <= stepped' /\ 0 <= offset' + stepped'
    <3>1. CASE offset' = offset + d
      BY <2>1, <2>2, <3>1, <1>0
    <3>2. CASE offset' = offset - d
      BY <2>1, <2>2, <3>2, <1>0
    <3>. QED  BY <2>1, <3>1, <3>2
  <2>4. UNCHANGED <<now, phase, due, start, err, todo, m, stamps, goodAt, read, age>>
    BY <1>2 DEF StepClock, loop, ready
  <2>. QED  BY <1>0, <2>3, <2>4 DEF Types, Calm
<1>3. CASE StartPoll
  <2>1. due' = now + Timeout /\ start'.real = now /\ start'.wall = now + offset
    BY <1>3 DEF StartPoll
  <2>2. due' \in Nat /\ start'.real \in Nat /\ start'.wall \in Int /\ start'.wall > 0
    BY <1>0, <2>1
  <2>3. phase' = "call" /\ UNCHANGED <<now, offset, stepped, err, todo, m, stamps, goodAt, read, age>>
    BY <1>3 DEF StartPoll, clocks, ready
  <2>. QED  BY <1>0, <2>2, <2>3 DEF Types, Calm
<1>4. CASE Good
  <2>1. due' \in Nat
    <3>1. due' = now + ReportTime
      BY <1>4 DEF Good
    <3>. QED  BY <1>0, <3>1
  <2>2. todo' \in Seq(Series) /\ todo' # << >>
    <3>1. todo' = ObservePollSuccess \o ObserveDiff
      BY <1>4 DEF Good
    <3>2. Len(todo') = 11
      BY <3>1, Recorded
    <3>. QED  BY <3>1, <3>2, Recorded
  <2>3. stamps' \in Seq(Int)
    BY <1>4 DEF Good, Types
  <2>4. /\ phase' = "record" /\ err' = FALSE
        /\ UNCHANGED <<now, offset, stepped, start, m, goodAt, read, age>>
    BY <1>4 DEF Good, clocks, ready
  <2>. QED  BY <1>0, <2>1, <2>2, <2>3, <2>4 DEF Types, Calm
<1>5. CASE Failed
  <2>1. todo' \in Seq(Series) /\ todo' # << >>
    BY <1>5, Recorded DEF Failed
  <2>2. /\ phase' = "record" /\ err' = TRUE /\ due' = now
        /\ UNCHANGED <<now, offset, stepped, start, m, stamps, goodAt, read, age>>
    BY <1>5 DEF Failed, clocks, ready
  <2>. QED  BY <1>0, <2>1, <2>2 DEF Types, Calm
<1>6. CASE Write
  <2>1. todo' \in Seq(Series) /\ (phase' = "record" => todo' # << >>)
    <3>1. todo' = Tail(todo) /\ phase = "record"
          /\ phase' = IF todo' = << >> THEN "report" ELSE "record"
      BY <1>6 DEF Write
    <3>2. todo \in Seq(Series) /\ todo # << >>
      BY <3>1 DEF Types
    <3>. QED  BY <3>1, <3>2
  <2>2. /\ phase' \in {"wait", "call", "record", "report"}
        /\ UNCHANGED <<now, offset, stepped, due, start, err, stamps, read, age>>
    BY <1>6 DEF Write, clocks, ready
  <2>3. goodAt' \in Nat
    BY <1>6 DEF Write, Types
  <2>4. m' = [s \in Series |-> m'[s]]
    BY <1>6, WriteEffect
  <2>5. m'["error"] \in Nat /\ m["error"] <= m'["error"] /\ m'["lastSuccess"] \in Int
    <3>1. /\ m'["error"] = IF Head(todo) = "error" THEN m["error"] + 1 ELSE m["error"]
          /\ m'["lastSuccess"] = IF Head(todo) = "lastSuccess" THEN start.wall ELSE m["lastSuccess"]
      BY <1>6, WriteEffect
    <3>2. m["error"] \in Nat /\ m["lastSuccess"] \in Int /\ start.wall \in Int
      BY DEF Types
    <3>. QED  BY <3>1, <3>2
  <2>6. Types'
    BY <1>0, <2>1, <2>2, <2>3, <2>4, <2>5 DEF Types
  <2>7. Calm' => Calm
    BY <1>0, <2>5 DEF Calm
  <2>. QED  BY <2>6, <2>7
<1>7. CASE Pause
  <2>1. PICK d \in IF err THEN Backoff ELSE (Interval - Jitter)..(Interval + Jitter) : due' = now + d
    BY <1>7 DEF Pause
  <2>2. d \in Nat
    BY <2>1
  <2>3. /\ phase' = "wait"
        /\ UNCHANGED <<now, offset, stepped, start, err, todo, m, stamps, goodAt, read, age>>
    BY <1>7 DEF Pause, clocks, ready
  <2>4. due' \in Nat
    BY <1>0, <2>1, <2>2
  <2>5. Types'
    BY <1>0, <2>3, <2>4 DEF Types
  <2>. QED  BY <2>3, <2>5 DEF Calm
<1>8. CASE ScrapeStarts \/ ScrapeReads \/ ScrapeEnds
  BY <1>0, <1>8 DEF ScrapeStarts, ScrapeReads, ScrapeEnds, Types, Calm, clocks, loop, ready
<1>9. CASE ProbeReads \/ ProbeAnswers \/ ProbeEnds
  <2>1. read'.wall \in Int /\ read'.real \in Int
    BY <1>0, <1>9 DEF ProbeReads, ProbeAnswers, ProbeEnds
  <2>2. age' \in Int
    BY <1>0, <1>9 DEF ProbeReads, ProbeAnswers, ProbeEnds
  <2>3. UNCHANGED <<now, offset, stepped, phase, due, start, err, todo, m, stamps, goodAt>>
    BY <1>9 DEF ProbeReads, ProbeAnswers, ProbeEnds, clocks, loop
  <2>. QED  BY <1>0, <2>1, <2>2, <2>3 DEF Types, Calm
<1>10. CASE UNCHANGED vars
  BY <1>0, <1>10 DEF vars, Types, Calm, clocks, loop, ready
<1>. QED
  BY <1>0, <1>1, <1>2, <1>3, <1>4, <1>5, <1>6, <1>7, <1>8, <1>9, <1>10 DEF Next

\* What the wall clock says of a moment stays as close as its steps allow, and
\* the record of a failed poll never reaches "lastSuccess".
LEMMA StepClocks ==
    ASSUME Types, Clocks, [Next]_vars
    PROVE  Clocks'
<1>. USE TimeAssumption
<1>0. /\ stepped \in Nat /\ offset \in Int /\ now \in Nat
      /\ start.real \in Nat /\ start.wall \in Int /\ start.wall > 0 /\ goodAt \in Nat
      /\ Latest \in Int /\ read.wall \in Int /\ read.real \in Int
  BY DEF Types, Latest
<1>00. /\ Close(start.real, start.wall)
       /\ Latest # 0 => Close(goodAt, Latest) /\ stamps # << >>
       /\ probe = "read" /\ read.wall # 0 => Close(read.real, read.wall) /\ stamps # << >>
       /\ phase = "record" => IF err THEN ~Pending ELSE stamps # << >>
  BY DEF Clocks
<1>2. CASE Tick
  <2>1. UNCHANGED <<offset, stepped, loop, ready>>
    BY <1>2 DEF Tick
  <2>. QED  BY <2>1, <1>00 DEF Clocks, Close, Pending, Latest, loop, ready
<1>3. ASSUME NEW d \in 1..MaxStep, StepClock(d) PROVE Clocks'
  <2>1. stepped' = stepped + d /\ offset' \in {offset + d, offset - d} /\ UNCHANGED <<loop, ready>>
    BY <1>3 DEF StepClock
  <2>2. d \in Nat
    BY <1>3
  <2>3. ASSUME NEW real \in Int, NEW wall \in Int, Close(real, wall)
        PROVE  real + offset' - wall <= stepped' /\ wall - real - offset' <= stepped'
    <3>1. CASE offset' = offset + d
      BY <1>0, <2>1, <2>2, <2>3, <3>1 DEF Close
    <3>2. CASE offset' = offset - d
      BY <1>0, <2>1, <2>2, <2>3, <3>2 DEF Close
    <3>. QED  BY <2>1, <3>1, <3>2
  <2>4. UNCHANGED <<start, goodAt, m, phase, err, todo, stamps, probe, read>>
    BY <2>1 DEF loop, ready
  <2>5. Close(start.real, start.wall)'
    BY <1>0, <1>00, <2>3, <2>4 DEF Close
  <2>6. Latest' # 0 => Close(goodAt, Latest)' /\ stamps' # << >>
    BY <1>0, <1>00, <2>3, <2>4 DEF Close, Latest
  <2>7. probe' = "read" /\ read'.wall # 0 => Close(read.real, read.wall)' /\ stamps' # << >>
    BY <1>0, <1>00, <2>3, <2>4 DEF Close
  <2>8. phase' = "record" => IF err' THEN ~Pending' ELSE stamps' # << >>
    BY <1>00, <2>4 DEF Pending
  <2>. QED  BY <2>5, <2>6, <2>7, <2>8 DEF Clocks
<1>4. CASE StartPoll
  <2>1. /\ start'.real = now /\ start'.wall = now + offset /\ phase' = "call"
        /\ UNCHANGED <<offset, stepped, goodAt, m, stamps, probe, read>>
    BY <1>4 DEF StartPoll, clocks, ready
  <2>2. Close(start.real, start.wall)'
    BY <1>0, <2>1 DEF Close
  <2>. QED  BY <1>00, <2>1, <2>2 DEF Clocks, Close, Latest
<1>5. CASE Good
  <2>1. /\ phase' = "record" /\ err' = FALSE /\ stamps' = Append(stamps, start.wall)
        /\ UNCHANGED <<offset, stepped, start, goodAt, m, probe, read>>
    BY <1>5 DEF Good, clocks, ready
  <2>2. stamps' # << >>
    <3>1. stamps \in Seq(Int) /\ start.wall \in Int
      BY DEF Types
    <3>. QED  BY <2>1, <3>1, AppendProperties
  <2>. QED  BY <1>00, <2>1, <2>2 DEF Clocks, Close, Latest
<1>6. CASE Failed
  <2>1. /\ phase' = "record" /\ err' = TRUE /\ todo' = ObservePollError
        /\ UNCHANGED <<offset, stepped, start, goodAt, m, stamps, probe, read>>
    BY <1>6 DEF Failed, clocks, ready
  <2>2. ~Pending'
    BY <2>1, Recorded DEF Pending
  <2>. QED  BY <1>00, <2>1, <2>2 DEF Clocks, Close, Latest
<1>7. CASE Write
  <2>1. /\ phase = "record" /\ todo' = Tail(todo)
        /\ goodAt' = IF Head(todo) = "lastSuccess" /\ ~err THEN start.real ELSE goodAt
        /\ UNCHANGED <<offset, stepped, start, err, stamps, probe, read>>
    BY <1>7 DEF Write, clocks, ready
  <2>2. todo \in Seq(Series) /\ todo # << >>
    BY <2>1 DEF Types
  <2>3. Latest' = IF Head(todo) = "lastSuccess" THEN start.wall ELSE Latest
    BY <1>7, WriteEffect DEF Latest
  <2>4. Pending' => Pending
    <3>1. SUFFICES ASSUME NEW i \in 1..Len(todo'), todo'[i] = "lastSuccess" PROVE Pending
      BY DEF Pending
    <3>2. i + 1 \in 1..Len(todo) /\ todo[i + 1] = "lastSuccess"
      BY <2>1, <2>2, <3>1
    <3>. QED  BY <3>2 DEF Pending
  <2>5. Head(todo) = "lastSuccess" => Pending
    <3>1. 1 \in 1..Len(todo) /\ Head(todo) = todo[1]
      BY <2>2
    <3>. QED  BY <3>1 DEF Pending
  <2>6. Head(todo) = "lastSuccess" => ~err /\ stamps # << >>
    BY <1>00, <2>1, <2>5
  <2>7. Latest' # 0 => Close(goodAt, Latest)' /\ stamps' # << >>
    <3>1. CASE Head(todo) = "lastSuccess"
      BY <1>00, <2>1, <2>3, <2>6, <3>1 DEF Close
    <3>2. CASE Head(todo) # "lastSuccess"
      BY <1>00, <2>1, <2>3, <3>2 DEF Close
    <3>. QED  BY <3>1, <3>2
  <2>8. phase' = "record" => IF err' THEN ~Pending' ELSE stamps' # << >>
    BY <1>00, <2>1, <2>4
  <2>. QED  BY <1>00, <2>1, <2>7, <2>8 DEF Clocks, Close
<1>8. CASE Pause
  <2>1. phase' = "wait" /\ UNCHANGED <<offset, stepped, start, goodAt, m, stamps, probe, read>>
    BY <1>8 DEF Pause, clocks, ready
  <2>. QED  BY <1>00, <2>1 DEF Clocks, Close, Latest
<1>9. CASE ScrapeStarts \/ ScrapeReads \/ ScrapeEnds
  <2>1. UNCHANGED <<offset, stepped, start, goodAt, m, phase, err, todo, stamps, probe, read>>
    BY <1>9 DEF ScrapeStarts, ScrapeReads, ScrapeEnds, clocks, loop, ready
  <2>. QED  BY <1>00, <2>1 DEF Clocks, Close, Latest, Pending
<1>10. CASE ProbeReads
  <2>1. /\ read'.wall = Latest /\ read'.real = goodAt
        /\ UNCHANGED <<offset, stepped, start, goodAt, m, phase, err, todo, stamps>>
    BY <1>10 DEF ProbeReads, clocks, loop, Latest
  <2>. QED  BY <1>00, <2>1 DEF Clocks, Close, Latest, Pending
<1>11. CASE ProbeAnswers \/ ProbeEnds
  <2>1. /\ probe' # "read"
        /\ UNCHANGED <<offset, stepped, start, goodAt, m, phase, err, todo, stamps>>
    BY <1>11 DEF ProbeAnswers, ProbeEnds, clocks, loop
  <2>. QED  BY <1>00, <2>1 DEF Clocks, Close, Latest, Pending
<1>12. CASE UNCHANGED vars
  BY <1>00, <1>12 DEF Clocks, Close, Latest, Pending, vars, clocks, loop, ready
<1>. QED
  BY <1>2, <1>3, <1>4, <1>5, <1>6, <1>7, <1>8, <1>9, <1>10, <1>11, <1>12 DEF Next

\* While no failure is recorded, every phase keeps its part of Slack.
LEMMA StepDeadlines ==
    ASSUME Types, Deadlines, ProbeFresh, Calm, Calm', [Next]_vars
    PROVE  Deadlines' /\ ProbeFresh'
<1>. USE TimeAssumption, SlackIsNat
<1>0. /\ now \in Nat /\ due \in Nat /\ start.real \in Nat /\ start.wall \in Int
      /\ start.wall > 0 /\ goodAt \in Nat /\ Latest \in Int
  BY DEF Types, Latest
<1>00. Slack = 2 * Timeout + ReportTime + Interval + Jitter
  BY DEF Slack
<1>1. CASE Tick
  <2>1. /\ now < due /\ phase # "record" /\ probe' = "none" /\ now' = now + 1
        /\ UNCHANGED <<phase, due, start, err, todo, m, goodAt>>
    BY <1>1 DEF Tick, Idle, loop, ready
  <2>2. Within(now, Slack)'
    <3>1. CASE phase = "wait"
      BY <1>0, <2>1, <3>1 DEF Deadlines, Within, Latest
    <3>2. CASE phase = "call"
      BY <1>0, <2>1, <3>2 DEF Deadlines, Within, Latest
    <3>3. CASE phase = "report"
      <4>1. now' <= goodAt + (Timeout + ReportTime)
        BY <1>0, <2>1, <3>3 DEF Deadlines, Counts
      <4>. QED  BY <1>0, <1>00, <2>1, <4>1 DEF Within
    <3>. QED  BY <2>1, <3>1, <3>2, <3>3 DEF Types
  <2>3. now' <= due'
    BY <1>0, <2>1
  <2>. QED
    BY <1>0, <2>1, <2>2, <2>3 DEF Deadlines, Within, Counts, Latest, ProbeFresh
<1>2. ASSUME NEW d \in 1..MaxStep, StepClock(d) PROVE Deadlines' /\ ProbeFresh'
  <2>1. UNCHANGED <<now, phase, due, start, err, todo, m, goodAt, probe, read>>
    BY <1>2 DEF StepClock, loop, ready
  <2>. QED  BY <2>1 DEF Deadlines, Within, Counts, Latest, Pending, ProbeFresh
<1>3. CASE StartPoll
  <2>1. /\ phase = "wait" /\ now = due /\ phase' = "call" /\ due' = now + Timeout
        /\ start'.real = now /\ UNCHANGED <<now, err, m, goodAt, probe, read>>
    BY <1>3 DEF StartPoll, clocks, ready
  <2>2. now <= due'
    BY <1>0, <2>1
  <2>. QED  BY <2>1, <2>2 DEF Deadlines, Within, Latest, ProbeFresh
<1>4. CASE Good
  <2>1. /\ phase = "call" /\ phase' = "record" /\ due' = now + ReportTime /\ err' = FALSE
        /\ todo' = ObservePollSuccess \o ObserveDiff
        /\ UNCHANGED <<now, start, m, goodAt, probe, read>>
    BY <1>4 DEF Good, clocks, ready
  <2>2. Pending'
    <3>1. 9 \in 1..11
      OBVIOUS
    <3>. QED  BY <2>1, <3>1, Recorded DEF Pending
  <2>3. now <= start.real + Timeout
    BY <2>1 DEF Deadlines
  <2>. QED  BY <2>1, <2>2, <2>3 DEF Deadlines, Within, Latest, ProbeFresh
<1>5. CASE Failed
  <2>1. /\ phase' = "record" /\ err' = TRUE /\ Head(todo') = "error"
        /\ UNCHANGED <<now, start, m, goodAt, probe, read>>
    BY <1>5, Recorded DEF Failed, clocks, ready
  <2>. QED  BY <2>1 DEF Deadlines, Within, Latest, ProbeFresh
<1>6. CASE Write
  <2>1. /\ phase = "record" /\ todo' = Tail(todo)
        /\ goodAt' = IF Head(todo) = "lastSuccess" /\ ~err THEN start.real ELSE goodAt
        /\ phase' = IF todo' = << >> THEN "report" ELSE "record"
        /\ UNCHANGED <<now, due, start, err, probe, read>>
    BY <1>6 DEF Write, clocks, ready
  <2>2. todo \in Seq(Series) /\ todo # << >>
    BY <2>1 DEF Types
  <2>3. Latest' = IF Head(todo) = "lastSuccess" THEN start.wall ELSE Latest
    BY <1>6, WriteEffect DEF Latest
  <2>4. Head(todo) # "error"
    <3>1. m'["error"] = IF Head(todo) = "error" THEN m["error"] + 1 ELSE m["error"]
      BY <1>6, WriteEffect
    <3>2. m["error"] = 0 /\ m'["error"] = 0
      BY DEF Calm
    <3>. QED  BY <3>1, <3>2
  <2>5. ~err
    BY <2>1, <2>4 DEF Deadlines
  <2>6. due = now + ReportTime /\ now <= start.real + Timeout /\ (Pending \/ Counts)
    BY <2>1, <2>5 DEF Deadlines
  <2>7. Within(now, Slack)'
    <3>1. CASE Head(todo) = "lastSuccess"
      <4>1. goodAt' = start.real /\ now' = now
        BY <2>1, <2>5, <3>1
      <4>2. now <= start.real + Slack
        BY <1>0, <1>00, <2>6
      <4>. QED  BY <4>1, <4>2 DEF Within
    <3>2. CASE Head(todo) # "lastSuccess"
      BY <2>1, <2>3, <3>2 DEF Deadlines, Within
    <3>. QED  BY <3>1, <3>2
  <2>8. Pending' \/ Counts'
    <3>1. CASE Head(todo) = "lastSuccess"
      BY <1>0, <2>1, <2>3, <2>5, <3>1 DEF Counts
    <3>2. CASE Head(todo) # "lastSuccess" /\ Counts
      BY <2>1, <2>3, <3>2 DEF Counts
    <3>3. CASE Head(todo) # "lastSuccess" /\ Pending
      <4>1. PICK i \in 1..Len(todo) : todo[i] = "lastSuccess"
        BY <3>3 DEF Pending
      <4>2. i # 1
        BY <2>2, <3>3, <4>1
      <4>3. i - 1 \in 1..Len(todo') /\ todo'[i - 1] = "lastSuccess"
        BY <2>1, <2>2, <4>1, <4>2
      <4>. QED  BY <4>3 DEF Pending
    <3>. QED  BY <2>6, <3>1, <3>2, <3>3
  <2>9. todo' = << >> => Counts'
    BY <2>8 DEF Pending
  <2>10. now <= due /\ due <= start.real + Timeout + ReportTime
    BY <1>0, <2>6
  <2>. QED  BY <2>1, <2>5, <2>6, <2>7, <2>8, <2>9, <2>10 DEF Deadlines, ProbeFresh
<1>7. CASE Pause
  <2>1. /\ phase = "report" /\ phase' = "wait"
        /\ UNCHANGED <<now, start, err, m, goodAt, probe, read>>
    BY <1>7 DEF Pause, clocks, ready
  <2>2. ~err /\ Counts /\ now <= due /\ due <= start.real + Timeout + ReportTime
    BY <2>1 DEF Deadlines
  <2>3. PICK d \in (Interval - Jitter)..(Interval + Jitter) : due' = now + d
    BY <1>7, <2>2 DEF Pause
  <2>4. now <= due' /\ due' <= goodAt + (Slack - Timeout)
    BY <1>0, <1>00, <2>2, <2>3 DEF Counts
  <2>. QED  BY <2>1, <2>2, <2>4 DEF Deadlines, Within, Latest, ProbeFresh
<1>8. CASE ScrapeStarts \/ ScrapeReads \/ ScrapeEnds
  <2>1. UNCHANGED <<now, phase, due, start, err, todo, m, goodAt, probe, read>>
    BY <1>8 DEF ScrapeStarts, ScrapeReads, ScrapeEnds, clocks, loop, ready
  <2>. QED  BY <2>1 DEF Deadlines, Within, Counts, Latest, Pending, ProbeFresh
<1>9. CASE ProbeReads
  <2>1. /\ read'.wall = Latest /\ read'.real = goodAt
        /\ UNCHANGED <<now, phase, due, start, err, todo, m, goodAt>>
    BY <1>9 DEF ProbeReads, clocks, loop, Latest
  <2>. QED  BY <2>1 DEF Deadlines, Within, Counts, Latest, Pending, ProbeFresh
<1>10. CASE ProbeAnswers \/ ProbeEnds
  <2>1. /\ probe' # "read"
        /\ UNCHANGED <<now, phase, due, start, err, todo, m, goodAt>>
    BY <1>10 DEF ProbeAnswers, ProbeEnds, clocks, loop
  <2>. QED  BY <2>1 DEF Deadlines, Within, Counts, Latest, Pending, ProbeFresh
<1>11. CASE UNCHANGED vars
  BY <1>11 DEF Deadlines, Within, Counts, Latest, Pending, ProbeFresh, vars, clocks, loop, ready
<1>. QED
  BY <1>1, <1>2, <1>3, <1>4, <1>5, <1>6, <1>7, <1>8, <1>9, <1>10, <1>11 DEF Next

\* A verdict falls on what the probe has read, and stays true until it ends.
LEMMA StepProbe ==
    ASSUME IInv, Types', Calm' => Calm, [Next]_vars
    PROVE  VerdictIsTrue' /\ ReadyDespiteSteps'
<1>. USE TimeAssumption, SlackIsNat
<1>0. /\ now \in Nat /\ offset \in Int /\ stepped \in Nat /\ stepped' \in Nat
      /\ read.wall \in Int /\ read.real \in Int /\ age \in Int
      /\ m["error"] \in Nat /\ m'["error"] \in Nat
      /\ MaxAge = 5 * Interval
  BY DEF IInv, Types, MaxAge
<1>1. m["error"] > 0 => m'["error"] > 0
  BY <1>0 DEF Calm
<1>2. CASE ProbeAnswers
  <2>1. /\ probe = "read" /\ age' = now - read.real
        /\ UNCHANGED <<m, stamps, stepped>>
        /\ probe' = "ready" => read.wall # 0 /\ now + offset - read.wall <= MaxAge
        /\ probe' = "stale" => read.wall # 0 /\ now + offset - read.wall > MaxAge
    BY <1>0, <1>2 DEF ProbeAnswers, clocks, loop
  <2>2. read.wall # 0 => Close(read.real, read.wall) /\ stamps # << >>
    BY <2>1 DEF IInv, Clocks
  <2>3. probe' = "ready" => stamps' # << >> /\ age' <= MaxAge + stepped'
    BY <1>0, <2>1, <2>2 DEF Close
  <2>4. probe' = "stale" => age' + stepped' > MaxAge
    BY <1>0, <2>1, <2>2 DEF Close
  <2>5. probe' = "stale" => m'["error"] > 0 \/ stepped' + Slack > 5 * Interval
    <3>1. SUFFICES ASSUME probe' = "stale", m["error"] = 0 PROVE stepped' + Slack > 5 * Interval
      BY <1>0, <2>1
    <3>2. now <= read.real + Slack
      BY <2>1, <3>1 DEF IInv, Calm, ProbeFresh
    <3>. QED  BY <1>0, <2>1, <2>4, <3>1, <3>2
  <2>6. UNCHANGED MaxAge
    BY DEF MaxAge
  <2>. QED  BY <2>3, <2>4, <2>5, <2>6 DEF VerdictIsTrue, ReadyDespiteSteps, Slack
<1>3. CASE ProbeReads \/ ProbeEnds
  <2>1. probe' \in {"none", "read"}
    BY <1>3 DEF ProbeReads, ProbeEnds
  <2>. QED  BY <2>1 DEF VerdictIsTrue, ReadyDespiteSteps
<1>4. ASSUME NEW d \in Nat, stepped' = stepped + d, UNCHANGED <<probe, age>>,
             stamps # << >> => stamps' # << >>
      PROVE  VerdictIsTrue' /\ ReadyDespiteSteps'
  <2>1. VerdictIsTrue /\ ReadyDespiteSteps
    BY DEF IInv
  <2>2. UNCHANGED MaxAge /\ UNCHANGED Slack
    BY DEF MaxAge, Slack
  <2>3. probe' = "ready" => stamps' # << >> /\ age' <= MaxAge + stepped'
    BY <1>0, <1>4, <2>1 DEF VerdictIsTrue
  <2>4. probe' = "stale" => age' + stepped' > MaxAge
    BY <1>0, <1>4, <2>1 DEF VerdictIsTrue
  <2>5. probe' = "stale" => m'["error"] > 0 \/ stepped' + Slack > 5 * Interval
    BY <1>0, <1>1, <1>4, <2>1 DEF ReadyDespiteSteps
  <2>. QED  BY <2>2, <2>3, <2>4, <2>5 DEF VerdictIsTrue, ReadyDespiteSteps
<1>5. ASSUME NEW d \in 1..MaxStep, StepClock(d) PROVE VerdictIsTrue' /\ ReadyDespiteSteps'
  <2>1. stepped' = stepped + d /\ UNCHANGED <<probe, age, stamps>> /\ d \in Nat
    BY <1>5 DEF StepClock, loop, ready
  <2>. QED  BY <1>0, <1>4, <2>1
<1>6. CASE Good
  <2>1. stamps' = Append(stamps, start.wall) /\ UNCHANGED <<probe, age, stepped>>
    BY <1>6 DEF Good, clocks, ready
  <2>2. stamps \in Seq(Int) /\ start.wall \in Int
    BY DEF IInv, Types
  <2>3. stamps' # << >>
    BY <2>1, <2>2, AppendProperties
  <2>4. stepped' = stepped + 0 /\ 0 \in Nat
    BY <1>0, <2>1
  <2>. QED  BY <1>4, <2>1, <2>3, <2>4
<1>7. CASE \/ Tick \/ StartPoll \/ Failed \/ Write \/ Pause
           \/ ScrapeStarts \/ ScrapeReads \/ ScrapeEnds \/ UNCHANGED vars
  <2>1. UNCHANGED <<probe, age, stamps, stepped>>
    BY <1>7 DEF Tick, StartPoll, Failed, Write, Pause, ScrapeStarts, ScrapeReads, ScrapeEnds,
                vars, clocks, loop, ready
  <2>2. stepped' = stepped + 0 /\ 0 \in Nat
    BY <1>0, <2>1
  <2>. QED  BY <1>4, <2>1, <2>2
<1>. QED  BY <1>2, <1>3, <1>5, <1>6, <1>7 DEF Next

LEMMA Invariance == Spec => []IInv
<1>1. IInv /\ [Next]_vars => IInv'
  <2>. SUFFICES ASSUME IInv, [Next]_vars PROVE IInv'
    OBVIOUS
  <2>1. Types' /\ (Calm' => Calm)
    BY StepTypes DEF IInv
  <2>2. Clocks'
    BY StepClocks DEF IInv
  <2>3. Calm' => Deadlines' /\ ProbeFresh'
    BY <2>1, StepDeadlines DEF IInv
  <2>4. VerdictIsTrue' /\ ReadyDespiteSteps'
    BY <2>1, StepProbe
  <2>. QED  BY <2>1, <2>2, <2>3, <2>4 DEF IInv
<1>. QED  BY InitIInv, <1>1, PTL DEF Spec

\* A verdict of /readyz is wrong by no more than the wall clock was stepped,
\* however the probe falls between the writes of a poll (StaleAfter).
THEOREM VerdictIsTrueHolds == Spec => []VerdictIsTrue
<1>1. IInv => VerdictIsTrue
  BY DEF IInv
<1>. QED  BY Invariance, <1>1, PTL

\* While all polls are good, only steps of the wall clock beyond what is left
\* of the five intervals make a probe say "stale" (StaleAfter, startAdminServer).
THEOREM ReadyDespiteStepsHolds == Spec => []ReadyDespiteSteps
<1>1. IInv => ReadyDespiteSteps
  BY DEF IInv
<1>. QED  BY Invariance, <1>1, PTL

-----------------------------------------------------------------------------
(* What a scrape shows.  A series lags behind the polls by what is left to *)
(* write of it and by nothing else (Recording), the writes left are the    *)
(* end of the sequence begun (Order), and a scrape reads the counters of   *)
(* the polls before all that is compared with them (Reading, Lag).         *)

\* The writes of the poll that is being recorded.
All == IF err THEN ObservePollError ELSE ObservePollSuccess \o ObserveDiff

Left(s) == IF \E i \in 1..Len(todo) : todo[i] = s THEN 1 ELSE 0

OfGood == {"success", "inCity", "inFence", "skipped", "new", "gone"}
OfFailed == {"error", "kind"}

Order ==
    /\ durations \in Seq(Nat) /\ Len(stamps) <= Len(durations)
    /\ phase # "record" => todo = << >>
    /\ phase = "record" =>
          /\ durations # << >>
          /\ ~err => stamps # << >> /\ stamps[Len(stamps)] = start.wall
          /\ Len(todo) <= Len(All)
          /\ \A i \in 1..Len(todo) : todo[i] = All[Len(All) - Len(todo) + i]
    /\ start.real <= now

Recording ==
    /\ \A s \in OfGood : m[s] = Len(stamps) - Left(s)
    /\ \A s \in OfFailed : m[s] = Len(durations) - Len(stamps) - Left(s)
    /\ m["total"] = Len(durations) - Left("total")
    /\ m["lastSuccess"] =
          IF Len(stamps) = Left("lastSuccess") THEN 0 ELSE stamps[Len(stamps) - Left("lastSuccess")]
    /\ LET polls == 1..(Len(durations) - Left("sum"))
       IN  IsFiniteSet(Units(polls)) /\ m["sum"] = Cardinality(Units(polls))
    /\ LET polls == 1..(Len(durations) - Left("counts"))
       IN  \A b \in Bounds : m["counts"][b] = Cardinality(NoLonger(polls, b))

PollsTotal == {"success", "error"}
Exposed == (Series \ {"sum", "total", "counts"}) \cup {"histogram"}

Reading ==
    /\ unread \in Seq(Exposed)
    /\ DOMAIN shown \subseteq Series
    /\ \A i, j \in 1..Len(unread) : i <= j /\ unread[j] \in PollsTotal => unread[i] \in PollsTotal
    /\ \/ unread = << >> /\ DOMAIN shown = {}
       \/ \A s \in Series \ DOMAIN shown : \E i \in 1..Len(unread) : s \in Read(unread[i])
    /\ DOMAIN shown \subseteq PollsTotal \/ \A i \in 1..Len(unread) : unread[i] \notin PollsTotal
    /\ \A s \in {"sum", "counts"} : s \in DOMAIN shown <=> "total" \in DOMAIN shown

Lag ==
    /\ "success" \in DOMAIN shown => shown["success"] \in Int /\ shown["success"] <= Len(stamps)
    /\ "error" \in DOMAIN shown =>
          shown["error"] \in Int /\ shown["error"] <= Len(durations) - Len(stamps)
    /\ "total" \in DOMAIN shown =>
          /\ shown["total"] \in 0..Len(durations)
          /\ shown["total"] >= shown["success"] + shown["error"] - 1
    /\ "kind" \in DOMAIN shown => shown["kind"] >= shown["error"] - 1
    /\ \A s \in OfGood \ {"success"} : s \in DOMAIN shown => shown[s] >= shown["success"] - 1
    /\ "lastSuccess" \in DOMAIN shown /\ shown["success"] > 1 =>
          \E i \in (shown["success"] - 1)..Len(stamps) : shown["lastSuccess"] = stamps[i]

-----------------------------------------------------------------------------

LEMMA GoodWrites ==
    LET all == ObservePollSuccess \o ObserveDiff
    IN  /\ Len(all) = 11
        /\ all[1] = "success" /\ all[2] = "sum" /\ all[3] = "total" /\ all[4] = "counts"
        /\ all[5] = "inCity" /\ all[6] = "inFence" /\ all[7] = "skipped" /\ all[8] = "lastPoll"
        /\ all[9] = "lastSuccess" /\ all[10] = "new" /\ all[11] = "gone"
<1>. DEFINE all == ObservePollSuccess \o ObserveDiff
<1>1. ObservePollSuccess \in Seq(Series) /\ Len(ObservePollSuccess) = 9
  BY DEF ObservePollSuccess, Series
<1>2. ObserveDiff \in Seq(Series) /\ Len(ObserveDiff) = 2
  BY DEF ObserveDiff, Series
<1>3. Len(all) = 11
  BY Recorded
<1>4. \A i \in 1..11 : all[i] = IF i <= 9 THEN ObservePollSuccess[i] ELSE ObserveDiff[i - 9]
  <2>1. \A i \in 1..(Len(ObservePollSuccess) + Len(ObserveDiff)) :
          all[i] = IF i <= Len(ObservePollSuccess) THEN ObservePollSuccess[i]
                   ELSE ObserveDiff[i - Len(ObservePollSuccess)]
    BY <1>1, <1>2, ConcatProperties
  <2>. HIDE DEF all
  <2>2. 9 + 2 = 11
    OBVIOUS
  <2>. QED  BY <1>1, <1>2, <2>1, <2>2
<1>5. /\ all[1] = "success" /\ all[2] = "sum" /\ all[3] = "total" /\ all[4] = "counts"
      /\ all[5] = "inCity" /\ all[6] = "inFence" /\ all[7] = "skipped" /\ all[8] = "lastPoll"
      /\ all[9] = "lastSuccess"
  <2>. HIDE DEF all
  <2>. QED  BY <1>4 DEF ObservePollSuccess
<1>6. all[10] = "new" /\ all[11] = "gone"
  <2>. HIDE DEF all
  <2>. QED  BY <1>4 DEF ObserveDiff
<1>. QED  BY <1>3, <1>5, <1>6

LEMMA FailedWrites ==
    LET all == ObservePollError
    IN  /\ Len(all) = 6
        /\ all[1] = "error" /\ all[2] = "kind" /\ all[3] = "sum" /\ all[4] = "total"
        /\ all[5] = "counts" /\ all[6] = "lastPoll"
  BY DEF ObservePollError

\* No series is written twice for one poll.
LEMMA WrittenOnce ==
    /\ Len(All) \in {6, 11}
    /\ \A i, j \in 1..Len(All) : All[i] = All[j] => i = j
<1>1. CASE err
  <2>1. All = ObservePollError
    BY <1>1 DEF All
  <2>. QED  BY <2>1, FailedWrites
<1>2. CASE ~err
  <2>1. All = ObservePollSuccess \o ObserveDiff
    BY <1>2 DEF All
  <2>2. Len(All) = 11
    BY <2>1, GoodWrites
  <2>3. /\ All[1] = "success" /\ All[2] = "sum" /\ All[3] = "total" /\ All[4] = "counts"
        /\ All[5] = "inCity" /\ All[6] = "inFence" /\ All[7] = "skipped" /\ All[8] = "lastPoll"
        /\ All[9] = "lastSuccess" /\ All[10] = "new" /\ All[11] = "gone"
    BY <2>1, GoodWrites, Zenon
  <2>4. SUFFICES ASSUME NEW i \in 1..11, NEW j \in 1..11, All[i] = All[j] PROVE i = j
    BY <2>2
  <2>5. ASSUME NEW n \in 1..11
        PROVE  n \in {1, 2, 3, 4, 5, 6, 7, 8, 9, 10, 11}
    OBVIOUS
  <2>6. i \in {1, 2, 3, 4, 5, 6, 7, 8, 9, 10, 11} /\ j \in {1, 2, 3, 4, 5, 6, 7, 8, 9, 10, 11}
    BY <2>5
  <2>. QED  BY <2>3, <2>4, <2>6, SMTT(60)
<1>. QED  BY <1>1, <1>2

\* A write is left exactly if it comes after those that are done.
LEMMA Ahead ==
    ASSUME todo \in Seq(Series), Order, phase = "record", NEW k \in 1..Len(All)
    PROVE  Left(All[k]) = IF Len(All) - Len(todo) < k THEN 1 ELSE 0
<1>1. /\ Len(todo) \in Nat /\ Len(todo) <= Len(All) /\ Len(All) \in Nat
      /\ \A i \in 1..Len(todo) : todo[i] = All[Len(All) - Len(todo) + i]
  BY WrittenOnce DEF Order
<1>2. ASSUME Len(All) - Len(todo) < k
      PROVE  \E i \in 1..Len(todo) : todo[i] = All[k]
  <2>1. k - (Len(All) - Len(todo)) \in 1..Len(todo)
    BY <1>1, <1>2
  <2>2. todo[k - (Len(All) - Len(todo))] = All[Len(All) - Len(todo) + (k - (Len(All) - Len(todo)))]
    BY <1>1, <2>1
  <2>3. Len(All) - Len(todo) + (k - (Len(All) - Len(todo))) = k
    BY <1>1
  <2>. QED  BY <2>1, <2>2, <2>3
<1>3. ASSUME NEW i \in 1..Len(todo), todo[i] = All[k]
      PROVE  Len(All) - Len(todo) < k
  <2>1. Len(All) - Len(todo) + i \in 1..Len(All)
    BY <1>1
  <2>2. All[Len(All) - Len(todo) + i] = All[k]
    BY <1>1, <1>3
  <2>3. Len(All) - Len(todo) + i = k
    BY <2>1, <2>2, WrittenOnce
  <2>. QED  BY <1>1, <2>3
<1>. QED  BY <1>2, <1>3 DEF Left

LEMMA NoneLeft == todo = << >> => \A s : Left(s) = 0
  BY DEF Left

\* What is left when a poll begins to be recorded.
LEMMA LeftOfGood ==
    ASSUME NEW writes, writes = ObservePollSuccess \o ObserveDiff, NEW s \in Series
    PROVE  (\E i \in 1..Len(writes) : writes[i] = s) <=> s \notin OfFailed
<1>1. /\ Len(writes) = 11
      /\ writes[1] = "success" /\ writes[2] = "sum" /\ writes[3] = "total" /\ writes[4] = "counts"
      /\ writes[5] = "inCity" /\ writes[6] = "inFence" /\ writes[7] = "skipped" /\ writes[8] = "lastPoll"
      /\ writes[9] = "lastSuccess" /\ writes[10] = "new" /\ writes[11] = "gone"
  BY GoodWrites
<1>2. \A i \in 1..Len(writes) : i \in {1, 2, 3, 4, 5, 6, 7, 8, 9, 10, 11}
  BY <1>1
<1>3. CASE s \in OfFailed
  <2>1. ASSUME NEW i \in 1..Len(writes)
        PROVE  writes[i] # s
    <3>1. s = "error" \/ s = "kind"
      BY <1>3 DEF OfFailed
    <3>2. i \in {1, 2, 3, 4, 5, 6, 7, 8, 9, 10, 11}
      BY <1>2
    <3>. QED  BY <1>1, <3>1, <3>2
  <2>. QED  BY <1>3, <2>1
<1>4. CASE s \notin OfFailed
  <2>1. \A i \in {1, 2, 3, 4, 5, 6, 7, 8, 9, 10, 11} : i \in 1..Len(writes)
    BY <1>1
  <2>2. \/ s = "success" \/ s = "sum" \/ s = "total" \/ s = "counts" \/ s = "inCity"
        \/ s = "inFence" \/ s = "skipped" \/ s = "lastPoll" \/ s = "lastSuccess"
        \/ s = "new" \/ s = "gone"
    BY <1>4 DEF OfFailed, Series
  <2>3. \E i \in {1, 2, 3, 4, 5, 6, 7, 8, 9, 10, 11} : writes[i] = s
    BY <1>1, <2>2, Zenon
  <2>. QED  BY <1>4, <2>1, <2>3
<1>. QED  BY <1>3, <1>4

LEMMA LeftOfFailed ==
    ASSUME NEW writes, writes = ObservePollError, NEW s \in Series
    PROVE  (\E i \in 1..Len(writes) : writes[i] = s)
              <=> s \in OfFailed \cup {"sum", "total", "counts", "lastPoll"}
<1>1. /\ Len(writes) = 6
      /\ writes[1] = "error" /\ writes[2] = "kind" /\ writes[3] = "sum" /\ writes[4] = "total"
      /\ writes[5] = "counts" /\ writes[6] = "lastPoll"
  BY FailedWrites
<1>2. CASE s \in OfFailed \cup {"sum", "total", "counts", "lastPoll"}
  <2>1. \E i \in 1..Len(writes) : writes[i] = s
    BY <1>1, <1>2 DEF OfFailed
  <2>. QED  BY <1>2, <2>1
<1>3. CASE s \notin OfFailed \cup {"sum", "total", "counts", "lastPoll"}
  <2>1. \A i \in 1..Len(writes) : writes[i] # s
    BY <1>1, <1>3 DEF OfFailed
  <2>. QED  BY <1>3, <2>1
<1>. QED  BY <1>2, <1>3

\* What the order of the writes says of the one that is next.
LEMMA NextWrite ==
    ASSUME todo \in Seq(Series), todo # << >>, Order, phase = "record"
    PROVE  /\ Left(Head(todo)) = 1
           /\ Head(todo) \in {"inCity", "inFence"} => Left("success") = 0
           /\ Head(todo) = "lastSuccess" => ~err
           /\ ~Locked => Left("sum") = Left("total") /\ Left("counts") = Left("total")
<1>. DEFINE p == Len(All) - Len(todo)
<1>1. /\ Len(todo) \in Nat /\ Len(todo) > 0 /\ Len(todo) <= Len(All) /\ Len(All) \in Nat
      /\ Head(todo) = All[p + 1] /\ p + 1 \in 1..Len(All)
  BY WrittenOnce DEF Order
<1>2. \A k \in 1..Len(All) : Left(All[k]) = IF p < k THEN 1 ELSE 0
  BY Ahead
<1>3. Left(Head(todo)) = 1
  BY <1>1, <1>2
<1>4. CASE err
  <2>1. /\ Len(All) = 6
        /\ All[1] = "error" /\ All[2] = "kind" /\ All[3] = "sum" /\ All[4] = "total"
        /\ All[5] = "counts" /\ All[6] = "lastPoll"
    BY <1>4, FailedWrites DEF All
  <2>2. Head(todo) \notin {"inCity", "inFence", "lastSuccess"}
    BY <1>1, <2>1
  <2>3. ~Locked => p + 1 # 4 /\ p + 1 # 5
    BY <1>1, <2>1 DEF Locked
  <2>4. /\ Left("sum") = (IF p < 3 THEN 1 ELSE 0) /\ Left("total") = (IF p < 4 THEN 1 ELSE 0)
        /\ Left("counts") = (IF p < 5 THEN 1 ELSE 0)
    BY <1>2, <2>1
  <2>. QED  BY <1>1, <1>3, <2>2, <2>3, <2>4
<1>5. CASE ~err
  <2>1. /\ Len(All) = 11
        /\ All[1] = "success" /\ All[2] = "sum" /\ All[3] = "total" /\ All[4] = "counts"
        /\ All[5] = "inCity" /\ All[6] = "inFence" /\ All[7] = "skipped" /\ All[8] = "lastPoll"
        /\ All[9] = "lastSuccess" /\ All[10] = "new" /\ All[11] = "gone"
    BY <1>5, GoodWrites DEF All
  <2>2. p = 0 => Head(todo) = "success"
    <3>1. p = 0 => p + 1 = 1
      BY <1>1
    <3>. HIDE DEF p
    <3>. QED  BY <1>1, <2>1, <3>1
  <2>3. ~Locked => p + 1 # 3 /\ p + 1 # 4
    BY <1>1, <2>1 DEF Locked
  <2>4. /\ Left("sum") = (IF p < 2 THEN 1 ELSE 0) /\ Left("total") = (IF p < 3 THEN 1 ELSE 0)
        /\ Left("counts") = (IF p < 4 THEN 1 ELSE 0) /\ Left("success") = (IF p < 1 THEN 1 ELSE 0)
    BY <1>2, <2>1
  <2>5. Head(todo) \in {"inCity", "inFence"} => Left("success") = 0
    BY <1>1, <2>2, <2>4
  <2>6. ~Locked => Left("sum") = Left("total") /\ Left("counts") = Left("total")
    BY <1>1, <2>3, <2>4
  <2>. QED  BY <1>3, <1>5, <2>5, <2>6
<1>. QED  BY <1>4, <1>5

LEMMA LeftAfterWrite ==
    ASSUME Types, Order, Write
    PROVE  \A s : Left(s)' = IF s = Head(todo) THEN 0 ELSE Left(s)
<1>1. todo \in Seq(Series) /\ todo # << >> /\ todo' = Tail(todo) /\ phase = "record"
  BY DEF Types, Write
<1>2. \A i \in 2..Len(todo) : todo[i] # Head(todo)
  <2>1. /\ Len(todo) <= Len(All) /\ Len(All) \in Nat
        /\ \A i \in 1..Len(todo) : todo[i] = All[Len(All) - Len(todo) + i]
    BY <1>1, WrittenOnce DEF Order
  <2>2. SUFFICES ASSUME NEW i \in 2..Len(todo), todo[i] = todo[1] PROVE FALSE
    BY <1>1
  <2>3. Len(All) - Len(todo) + i \in 1..Len(All) /\ Len(All) - Len(todo) + 1 \in 1..Len(All)
    BY <1>1, <2>1
  <2>4. All[Len(All) - Len(todo) + i] = All[Len(All) - Len(todo) + 1]
    BY <1>1, <2>1, <2>2
  <2>5. Len(All) - Len(todo) + i = Len(All) - Len(todo) + 1
    BY <2>3, <2>4, WrittenOnce
  <2>. QED  BY <1>1, <2>1, <2>5
<1>3. ASSUME NEW s, s # Head(todo)
      PROVE  (\E i \in 1..Len(todo') : todo'[i] = s) <=> (\E i \in 1..Len(todo) : todo[i] = s)
  <2>1. ASSUME NEW i \in 1..Len(todo'), todo'[i] = s
        PROVE  i + 1 \in 1..Len(todo) /\ todo[i + 1] = s
    BY <1>1, <2>1
  <2>2. ASSUME NEW i \in 1..Len(todo), todo[i] = s
        PROVE  i - 1 \in 1..Len(todo') /\ todo'[i - 1] = s
    BY <1>1, <1>3, <2>2
  <2>. QED  BY <2>1, <2>2
<1>4. ~ \E i \in 1..Len(todo') : todo'[i] = Head(todo)
  BY <1>1, <1>2
<1>. QED  BY <1>3, <1>4 DEF Left

LEMMA StepOrder ==
    ASSUME Types, Order, [Next]_vars
    PROVE  Order'
<1>0. /\ now \in Nat /\ start.real \in Nat /\ start.wall \in Int /\ start.real <= now
      /\ durations \in Seq(Nat) /\ stamps \in Seq(Int) /\ todo \in Seq(Series)
      /\ Len(stamps) <= Len(durations)
  BY DEF Types, Order
<1>1. CASE Good
  <2>1. /\ phase' = "record" /\ err' = FALSE /\ todo' = ObservePollSuccess \o ObserveDiff
        /\ durations' = Append(durations, now - start.real)
        /\ stamps' = Append(stamps, start.wall) /\ UNCHANGED <<now, start>>
    BY <1>1 DEF Good, clocks
  <2>2. /\ durations' \in Seq(Nat) /\ Len(durations') = Len(durations) + 1 /\ durations' # << >>
        /\ Len(stamps') = Len(stamps) + 1 /\ stamps'[Len(stamps')] = start.wall /\ stamps' # << >>
    <3>1. now - start.real \in Nat
      BY <1>0
    <3>. QED  BY <1>0, <2>1, <3>1, AppendProperties
  <2>3. All' = todo'
    BY <2>1 DEF All
  <2>4. Len(todo') = 11
    BY <2>1, Recorded
  <2>5. \A i \in 1..Len(todo') : todo'[i] = All'[Len(All') - Len(todo') + i]
    <3>1. \A i \in 1..11 : 11 - 11 + i = i
      OBVIOUS
    <3>. QED  BY <2>3, <2>4, <3>1
  <2>6. Len(stamps') <= Len(durations') /\ Len(todo') <= Len(All')
    BY <1>0, <2>2, <2>3, <2>4
  <2>. QED  BY <1>0, <2>1, <2>2, <2>5, <2>6 DEF Order
<1>2. CASE Failed
  <2>1. /\ phase' = "record" /\ err' = TRUE /\ todo' = ObservePollError
        /\ durations' = Append(durations, now - start.real)
        /\ UNCHANGED <<now, start, stamps>>
    BY <1>2 DEF Failed, clocks
  <2>2. durations' \in Seq(Nat) /\ Len(durations') = Len(durations) + 1 /\ durations' # << >>
    <3>1. now - start.real \in Nat
      BY <1>0
    <3>. QED  BY <1>0, <2>1, <3>1, AppendProperties
  <2>3. All' = todo'
    BY <2>1 DEF All
  <2>4. Len(todo') = 6
    BY <2>1, FailedWrites
  <2>5. \A i \in 1..Len(todo') : todo'[i] = All'[Len(All') - Len(todo') + i]
    <3>1. \A i \in 1..6 : 6 - 6 + i = i
      OBVIOUS
    <3>. QED  BY <2>3, <2>4, <3>1
  <2>6. Len(stamps') <= Len(durations') /\ Len(todo') <= Len(All')
    BY <1>0, <2>1, <2>2, <2>3, <2>4
  <2>. QED  BY <1>0, <2>1, <2>2, <2>5, <2>6 DEF Order
<1>3. CASE Write
  <2>1. /\ phase = "record" /\ todo' = Tail(todo)
        /\ phase' = IF todo' = << >> THEN "report" ELSE "record"
        /\ UNCHANGED <<now, start, err, durations, stamps>>
    BY <1>3 DEF Write, clocks
  <2>2. todo # << >> /\ All' = All
    BY <2>1 DEF Types, All
  <2>3. /\ Len(todo) <= Len(All) /\ Len(All) \in Nat
        /\ \A i \in 1..Len(todo) : todo[i] = All[Len(All) - Len(todo) + i]
    BY <2>1, WrittenOnce DEF Order
  <2>4. Len(todo') <= Len(All)
    BY <1>0, <2>1, <2>2, <2>3
  <2>5. ASSUME NEW i \in 1..Len(todo')
        PROVE  todo'[i] = All[Len(All) - Len(todo') + i]
    <3>1. i + 1 \in 1..Len(todo) /\ todo'[i] = todo[i + 1]
      BY <1>0, <2>1, <2>2
    <3>2. Len(All) - Len(todo) + (i + 1) = Len(All) - Len(todo') + i
      BY <1>0, <2>1, <2>2, <2>3
    <3>. QED  BY <2>3, <3>1, <3>2
  <2>. QED  BY <1>0, <2>1, <2>2, <2>4, <2>5 DEF Order
<1>4. CASE Tick
  <2>1. now' = now + 1 /\ UNCHANGED <<phase, start, err, todo, durations, stamps>>
    BY <1>4 DEF Tick, loop
  <2>2. start'.real <= now'
    BY <1>0, <2>1
  <2>. QED  BY <2>1, <2>2 DEF Order, All
<1>5. CASE StartPoll
  <2>1. /\ phase = "wait" /\ phase' = "call" /\ start'.real = now
        /\ UNCHANGED <<now, err, todo, durations, stamps>>
    BY <1>5 DEF StartPoll, clocks
  <2>2. start'.real <= now'
    BY <1>0, <2>1
  <2>. QED  BY <2>1, <2>2 DEF Order
<1>6. CASE Pause
  <2>1. /\ phase = "report" /\ phase' = "wait"
        /\ UNCHANGED <<now, start, err, todo, durations, stamps>>
    BY <1>6 DEF Pause, clocks
  <2>. QED  BY <2>1 DEF Order
<1>7. ASSUME UNCHANGED <<now, phase, start, err, todo, durations, stamps>>
      PROVE  Order'
  BY <1>7 DEF Order, All
<1>8. CASE \E d \in 1..MaxStep : StepClock(d)
  BY <1>7, <1>8 DEF StepClock, loop
<1>9. CASE ScrapeStarts \/ ScrapeReads \/ ScrapeEnds
  BY <1>7, <1>9 DEF ScrapeStarts, ScrapeReads, ScrapeEnds, clocks, loop
<1>10. CASE ProbeReads \/ ProbeAnswers \/ ProbeEnds
  BY <1>7, <1>10 DEF ProbeReads, ProbeAnswers, ProbeEnds, clocks, loop
<1>11. CASE UNCHANGED vars
  BY <1>7, <1>11 DEF vars, clocks, loop
<1>. QED
  BY <1>1, <1>2, <1>3, <1>4, <1>5, <1>6, <1>8, <1>9, <1>10, <1>11 DEF Next

-----------------------------------------------------------------------------
(* Counting the units of a set of polls.                                   *)

LEMMA UnitsOfNone == Units(1..0) = {} /\ \A b : NoLonger(1..0, b) = {}
<1>1. 1..0 = {}
  OBVIOUS
<1>. QED  BY <1>1 DEF Units, NoLonger

\* One poll more adds its duration.
LEMMA UnitsGrow ==
    ASSUME durations \in Seq(Nat), NEW n \in Nat, n + 1 <= Len(durations),
           IsFiniteSet(Units(1..n))
    PROVE  /\ IsFiniteSet(Units(1..(n + 1)))
           /\ Cardinality(Units(1..(n + 1))) = Cardinality(Units(1..n)) + durations[n + 1]
<1>. DEFINE more == {n + 1} \X (1..durations[n + 1])
<1>1. durations[n + 1] \in Nat
  OBVIOUS
<1>2. IsFiniteSet(more) /\ Cardinality(more) = durations[n + 1]
  <2>1. IsFiniteSet({n + 1}) /\ Cardinality({n + 1}) = 1
    <3>1. {} \cup {n + 1} = {n + 1} /\ n + 1 \notin {}
      OBVIOUS
    <3>2. IsFiniteSet({}) /\ Cardinality({}) = 0
      BY FS_EmptySet
    <3>3. /\ IsFiniteSet({} \cup {n + 1})
          /\ Cardinality({} \cup {n + 1}) = Cardinality({}) + 1
      BY <3>1, <3>2, FS_AddElement
    <3>. QED  BY <3>1, <3>2, <3>3
  <2>2. IsFiniteSet(1..durations[n + 1]) /\ Cardinality(1..durations[n + 1]) = durations[n + 1]
    <3>1. ASSUME NEW d \in Nat
          PROVE  IsFiniteSet(1..d) /\ Cardinality(1..d) = d
      <4>1. 1 \in Int /\ d \in Int
        OBVIOUS
      <4>2. /\ IsFiniteSet(1..d)
            /\ Cardinality(1..d) = IF 1 > d THEN 0 ELSE d - 1 + 1
        BY <4>1, FS_Interval, Zenon
      <4>. QED  BY <4>2
    <3>. QED  BY <1>1, <3>1
  <2>3. IsFiniteSet(more) /\ Cardinality(more) = Cardinality({n + 1}) * Cardinality(1..durations[n + 1])
    BY <2>1, <2>2, FS_Product
  <2>. QED  BY <1>1, <2>1, <2>2, <2>3
<1>3. 1..(n + 1) = (1..n) \cup {n + 1}
  OBVIOUS
<1>4. Units(1..(n + 1)) = Units(1..n) \cup more
  BY <1>3 DEF Units
<1>5. Units(1..n) \cap more = {}
  <2>1. \A p \in Units(1..n) : p[1] \in 1..n
    BY DEF Units
  <2>2. \A p \in more : p[1] = n + 1
    OBVIOUS
  <2>3. n + 1 \notin 1..n
    OBVIOUS
  <2>. QED  BY <2>1, <2>2, <2>3
<1>6. Cardinality(Units(1..n)) \in Nat
  BY FS_CardinalityType
<1>7. /\ IsFiniteSet(Units(1..n) \cup more)
      /\ Cardinality(Units(1..n) \cup more)
            = Cardinality(Units(1..n)) + Cardinality(more) - Cardinality(Units(1..n) \cap more)
  BY <1>2, FS_Union
<1>8. Cardinality(Units(1..n) \cap more) = 0
  BY <1>5, FS_EmptySet
<1>. HIDE DEF more
<1>9. Cardinality(Units(1..n) \cup more) = Cardinality(Units(1..n)) + durations[n + 1]
  BY <1>1, <1>2, <1>6, <1>7, <1>8
<1>. QED  BY <1>4, <1>7, <1>9

\* And counts in the buckets that are long enough for it.
LEMMA NoLongerGrows ==
    ASSUME durations \in Seq(Nat), NEW n \in Nat, n + 1 <= Len(durations), NEW b
    PROVE  Cardinality(NoLonger(1..(n + 1), b)) =
              Cardinality(NoLonger(1..n, b)) + (IF durations[n + 1] <= b THEN 1 ELSE 0)
<1>1. 1..(n + 1) = (1..n) \cup {n + 1} /\ n + 1 \notin 1..n
  OBVIOUS
<1>2. IsFiniteSet(NoLonger(1..n, b))
  <2>1. IsFiniteSet(1..n)
    BY FS_Interval
  <2>2. NoLonger(1..n, b) \in SUBSET (1..n)
    BY DEF NoLonger
  <2>. QED  BY <2>1, <2>2, FS_Subset
<1>3. Cardinality(NoLonger(1..n, b)) \in Nat
  BY <1>2, FS_CardinalityType
<1>4. n + 1 \notin NoLonger(1..n, b)
  BY <1>1 DEF NoLonger
<1>5. CASE durations[n + 1] <= b
  <2>1. NoLonger(1..(n + 1), b) = NoLonger(1..n, b) \cup {n + 1}
    BY <1>1, <1>5 DEF NoLonger
  <2>. QED  BY <1>2, <1>4, <1>5, <2>1, FS_AddElement
<1>6. CASE ~(durations[n + 1] <= b)
  <2>1. NoLonger(1..(n + 1), b) = NoLonger(1..n, b)
    BY <1>1, <1>6 DEF NoLonger
  <2>. QED  BY <1>3, <1>6, <2>1
<1>. QED  BY <1>5, <1>6

\* What the first polls took is not changed by a later one.
LEMMA UnitsStay ==
    ASSUME durations \in Seq(Nat), NEW d \in Nat, durations' = Append(durations, d),
           NEW polls, polls \subseteq 1..Len(durations)
    PROVE  /\ UNION {{i} \X (1..durations'[i]) : i \in polls} = Units(polls)
           /\ \A b : {i \in polls : durations'[i] <= b} = NoLonger(polls, b)
<1>1. \A i \in polls : durations'[i] = durations[i]
  BY AppendProperties
<1>2. UNION {{i} \X (1..durations'[i]) : i \in polls} = Units(polls)
  BY <1>1 DEF Units
<1>3. ASSUME NEW b PROVE {i \in polls : durations'[i] <= b} = NoLonger(polls, b)
  BY <1>1 DEF NoLonger
<1>. QED  BY <1>2, <1>3

-----------------------------------------------------------------------------

LEMMA LeftIsBit == \A s : Left(s) \in {0, 1}
  BY DEF Left

\* A step of the loop that writes nothing and observes no poll.
LEMMA RecordingKept ==
    ASSUME Recording, UNCHANGED <<m, todo, durations, stamps>>
    PROVE  Recording'
<1>1. \A s : Left(s)' = Left(s)
  BY DEF Left
<1>2. (\A s \in OfGood : m[s] = Len(stamps) - Left(s))'
  BY <1>1 DEF Recording
<1>3. (\A s \in OfFailed : m[s] = Len(durations) - Len(stamps) - Left(s))'
  BY <1>1 DEF Recording
<1>4. (m["total"] = Len(durations) - Left("total"))'
  BY <1>1 DEF Recording
<1>5. (m["lastSuccess"] =
          IF Len(stamps) = Left("lastSuccess") THEN 0 ELSE stamps[Len(stamps) - Left("lastSuccess")])'
  BY <1>1 DEF Recording
<1>6. (LET polls == 1..(Len(durations) - Left("sum"))
       IN  IsFiniteSet(Units(polls)) /\ m["sum"] = Cardinality(Units(polls)))'
  BY <1>1 DEF Recording, Units
<1>7. (LET polls == 1..(Len(durations) - Left("counts"))
       IN  \A b \in Bounds : m["counts"][b] = Cardinality(NoLonger(polls, b)))'
  BY <1>1 DEF Recording, NoLonger
<1>. QED  BY <1>2, <1>3, <1>4, <1>5, <1>6, <1>7 DEF Recording

\* A poll that begins to be recorded is ahead of all its series.
LEMMA RecordingOfGood ==
    ASSUME Types, Order, Recording, Good
    PROVE  Recording'
<1>1. /\ todo = << >> /\ todo' = ObservePollSuccess \o ObserveDiff /\ m' = m
      /\ durations' = Append(durations, now - start.real) /\ now - start.real \in Nat
      /\ stamps' = Append(stamps, start.wall)
      /\ durations \in Seq(Nat) /\ stamps \in Seq(Int) /\ start.wall \in Int
  <2>1. /\ todo = << >> /\ start.real <= now /\ durations \in Seq(Nat)
    BY DEF Good, Order
  <2>2. /\ now \in Nat /\ start.real \in Nat /\ stamps \in Seq(Int) /\ start.wall \in Int
    BY DEF Types
  <2>3. now - start.real \in Nat
    BY <2>1, <2>2
  <2>. QED  BY <2>1, <2>2, <2>3 DEF Good
<1>2. /\ Len(durations') = Len(durations) + 1 /\ Len(stamps') = Len(stamps) + 1
      /\ Len(durations) \in Nat /\ Len(stamps) \in Nat
      /\ \A i \in 1..Len(stamps) : stamps'[i] = stamps[i]
  BY <1>1, AppendProperties
<1>3. \A s : Left(s) = 0
  BY <1>1, NoneLeft
<1>4. ASSUME NEW s \in Series
      PROVE  Left(s)' = IF s \in OfFailed THEN 0 ELSE 1
  <2>1. (\E i \in 1..Len(todo') : todo'[i] = s) <=> s \notin OfFailed
    BY <1>1, LeftOfGood
  <2>. QED  BY <2>1 DEF Left
<1>5. OfGood \subseteq Series \ OfFailed /\ OfFailed \subseteq Series
      /\ {"total", "lastSuccess", "sum", "counts"} \subseteq Series \ OfFailed
  BY DEF OfGood, OfFailed, Series
<1>6. (\A s \in OfGood : m[s] = Len(stamps) - Left(s))'
  BY <1>1, <1>2, <1>3, <1>4, <1>5 DEF Recording
<1>7. (\A s \in OfFailed : m[s] = Len(durations) - Len(stamps) - Left(s))'
  BY <1>1, <1>2, <1>3, <1>4, <1>5 DEF Recording
<1>8. (m["total"] = Len(durations) - Left("total"))'
  BY <1>1, <1>2, <1>3, <1>4, <1>5 DEF Recording
<1>9. (m["lastSuccess"] =
          IF Len(stamps) = Left("lastSuccess") THEN 0 ELSE stamps[Len(stamps) - Left("lastSuccess")])'
  <2>1. m["lastSuccess"] = IF Len(stamps) = 0 THEN 0 ELSE stamps[Len(stamps)]
    BY <1>2, <1>3 DEF Recording
  <2>2. Left("lastSuccess")' = 1
    BY <1>4, <1>5
  <2>3. Len(stamps') - 1 = Len(stamps) /\ (Len(stamps') = 1 <=> Len(stamps) = 0)
    BY <1>2
  <2>4. Len(stamps) # 0 => stamps'[Len(stamps)] = stamps[Len(stamps)]
    BY <1>2
  <2>. QED  BY <1>1, <2>1, <2>2, <2>3, <2>4
<1>10. Left("sum")' = 1 /\ Left("counts")' = 1 /\ Len(durations') - 1 = Len(durations)
  BY <1>2, <1>4, <1>5
<1>11. (LET polls == 1..(Len(durations) - Left("sum"))
        IN  IsFiniteSet(Units(polls)) /\ m["sum"] = Cardinality(Units(polls)))'
  <2>1. Len(durations) - Left("sum") = Len(durations)
    BY <1>2, <1>3
  <2>2. IsFiniteSet(Units(1..Len(durations))) /\ m["sum"] = Cardinality(Units(1..Len(durations)))
    BY <2>1 DEF Recording
  <2>3. UNION {{i} \X (1..durations'[i]) : i \in 1..Len(durations)} = Units(1..Len(durations))
    BY <1>1, UnitsStay
  <2>. QED  BY <1>1, <1>10, <2>2, <2>3 DEF Units
<1>12. (LET polls == 1..(Len(durations) - Left("counts"))
        IN  \A b \in Bounds : m["counts"][b] = Cardinality(NoLonger(polls, b)))'
  <2>1. Len(durations) - Left("counts") = Len(durations)
    BY <1>2, <1>3
  <2>2. \A b \in Bounds : m["counts"][b] = Cardinality(NoLonger(1..Len(durations), b))
    BY <2>1 DEF Recording
  <2>3. \A b : {i \in 1..Len(durations) : durations'[i] <= b} = NoLonger(1..Len(durations), b)
    BY <1>1, UnitsStay
  <2>. QED  BY <1>1, <1>10, <2>2, <2>3 DEF NoLonger
<1>. QED  BY <1>6, <1>7, <1>8, <1>9, <1>11, <1>12 DEF Recording

LEMMA RecordingOfFailed ==
    ASSUME Types, Order, Recording, Failed
    PROVE  Recording'
<1>1. /\ todo = << >> /\ todo' = ObservePollError /\ m' = m /\ stamps' = stamps
      /\ durations' = Append(durations, now - start.real) /\ now - start.real \in Nat
      /\ durations \in Seq(Nat) /\ stamps \in Seq(Int)
  <2>1. phase # "record" /\ todo' = ObservePollError /\ m' = m /\ stamps' = stamps
        /\ durations' = Append(durations, now - start.real)
    BY DEF Failed
  <2>2. todo = << >> /\ durations \in Seq(Nat) /\ start.real <= now
    BY <2>1 DEF Order
  <2>3. now \in Nat /\ start.real \in Nat /\ stamps \in Seq(Int)
    BY DEF Types
  <2>4. now - start.real \in Nat
    BY <2>2, <2>3
  <2>. QED  BY <2>1, <2>2, <2>3, <2>4
<1>2. /\ Len(durations') = Len(durations) + 1 /\ Len(durations) \in Nat /\ Len(stamps) \in Nat
  BY <1>1, AppendProperties
<1>3. \A s : Left(s) = 0
  BY <1>1, NoneLeft
<1>4. ASSUME NEW s \in Series
      PROVE  Left(s)' = IF s \in OfFailed \cup {"sum", "total", "counts", "lastPoll"} THEN 1 ELSE 0
  <2>1. (\E i \in 1..Len(todo') : todo'[i] = s)
           <=> s \in OfFailed \cup {"sum", "total", "counts", "lastPoll"}
    BY <1>1, LeftOfFailed
  <2>. QED  BY <2>1 DEF Left
<1>5. /\ \A s \in OfGood : Left(s)' = 0
      /\ \A s \in OfFailed : Left(s)' = 1
      /\ Left("lastSuccess")' = 0 /\ Left("total")' = 1 /\ Left("sum")' = 1 /\ Left("counts")' = 1
  BY <1>4 DEF OfGood, OfFailed, Series
<1>6. (\A s \in OfGood : m[s] = Len(stamps) - Left(s))'
  BY <1>1, <1>2, <1>3, <1>5 DEF Recording
<1>7. (\A s \in OfFailed : m[s] = Len(durations) - Len(stamps) - Left(s))'
  <2>1. ASSUME NEW s \in OfFailed PROVE m'[s] = Len(durations') - Len(stamps') - Left(s)'
    <3>1. m[s] = Len(durations) - Len(stamps) - Left(s) /\ Left(s) = 0 /\ Left(s)' = 1
      BY <1>3, <1>5 DEF Recording
    <3>. QED  BY <1>1, <1>2, <3>1
  <2>. QED  BY <2>1
<1>8. (m["total"] = Len(durations) - Left("total"))'
  BY <1>1, <1>2, <1>3, <1>5 DEF Recording
<1>9. (m["lastSuccess"] =
          IF Len(stamps) = Left("lastSuccess") THEN 0 ELSE stamps[Len(stamps) - Left("lastSuccess")])'
  BY <1>1, <1>2, <1>3, <1>5 DEF Recording
<1>10. Len(durations') - 1 = Len(durations)
  BY <1>2
<1>11. (LET polls == 1..(Len(durations) - Left("sum"))
        IN  IsFiniteSet(Units(polls)) /\ m["sum"] = Cardinality(Units(polls)))'
  <2>1. Len(durations) - Left("sum") = Len(durations)
    BY <1>2, <1>3
  <2>2. IsFiniteSet(Units(1..Len(durations))) /\ m["sum"] = Cardinality(Units(1..Len(durations)))
    BY <2>1 DEF Recording
  <2>3. UNION {{i} \X (1..durations'[i]) : i \in 1..Len(durations)} = Units(1..Len(durations))
    BY <1>1, UnitsStay
  <2>. QED  BY <1>1, <1>5, <1>10, <2>2, <2>3 DEF Units
<1>12. (LET polls == 1..(Len(durations) - Left("counts"))
        IN  \A b \in Bounds : m["counts"][b] = Cardinality(NoLonger(polls, b)))'
  <2>1. Len(durations) - Left("counts") = Len(durations)
    BY <1>2, <1>3
  <2>2. \A b \in Bounds : m["counts"][b] = Cardinality(NoLonger(1..Len(durations), b))
    BY <2>1 DEF Recording
  <2>3. \A b : {i \in 1..Len(durations) : durations'[i] <= b} = NoLonger(1..Len(durations), b)
    BY <1>1, UnitsStay
  <2>. QED  BY <1>1, <1>5, <1>10, <2>2, <2>3 DEF NoLonger
<1>. QED  BY <1>6, <1>7, <1>8, <1>9, <1>11, <1>12 DEF Recording

\* A write brings its series up to the polls.
LEMMA RecordingOfWrite ==
    ASSUME Types, Order, Recording, Write
    PROVE  Recording'
<1>. DEFINE h == Head(todo)
<1>1. /\ todo \in Seq(Series) /\ todo # << >> /\ phase = "record" /\ h \in Series
      /\ durations \in Seq(Nat) /\ stamps \in Seq(Int) /\ durations # << >>
      /\ ~err => stamps # << >> /\ stamps[Len(stamps)] = start.wall
      /\ UNCHANGED <<durations, stamps>>
  BY DEF Write, Types, Order
<1>2. m' = [s \in Series |-> IF s = h THEN Written(s) ELSE m[s]]
  <2>1. m' = [m EXCEPT ![h] = Written(h)]
    BY DEF Write
  <2>. HIDE DEF Written
  <2>. QED  BY <2>1, <1>1 DEF Types
<1>3. \A s : Left(s)' = IF s = h THEN 0 ELSE Left(s)
  BY LeftAfterWrite
<1>4. /\ Left(h) = 1 /\ (h \in {"inCity", "inFence"} => Left("success") = 0)
      /\ (h = "lastSuccess" => ~err)
  BY <1>1, NextWrite
<1>5. /\ Len(stamps) \in Nat /\ Len(durations) \in Nat /\ Len(durations) > 0
      /\ ~err => Len(stamps) > 0
      /\ \A s : Left(s) \in {0, 1}
  BY <1>1, LeftIsBit
<1>6. OfGood \cup OfFailed \cup {"total", "lastSuccess", "sum", "counts"} \subseteq Series
  BY DEF OfGood, OfFailed, Series
<1>. HIDE DEF h
<1>7. ASSUME NEW s \in OfGood PROVE m'[s] = Len(stamps') - Left(s)'
  <2>1. m[s] = Len(stamps) - Left(s) /\ m["success"] = Len(stamps) - Left("success")
    BY DEF Recording, OfGood
  <2>2. CASE s = h
    <3>1. Written(s) = IF s \in {"inCity", "inFence"} THEN m["success"] ELSE m[s] + 1
      BY DEF Written, OfGood
    <3>2. Written(s) = Len(stamps)
      BY <1>4, <1>5, <2>1, <2>2, <3>1
    <3>. QED  BY <1>1, <1>2, <1>3, <1>5, <1>6, <2>2, <3>2
  <2>3. CASE s # h
    BY <1>1, <1>2, <1>3, <1>6, <2>1, <2>3
  <2>. QED  BY <2>2, <2>3
<1>8. ASSUME NEW s \in OfFailed PROVE m'[s] = Len(durations') - Len(stamps') - Left(s)'
  <2>1. m[s] = Len(durations) - Len(stamps) - Left(s)
    BY DEF Recording
  <2>2. CASE s = h
    <3>1. Written(s) = m[s] + 1
      BY DEF Written, OfFailed
    <3>. QED  BY <1>1, <1>2, <1>3, <1>4, <1>5, <1>6, <2>1, <2>2, <3>1
  <2>3. CASE s # h
    BY <1>1, <1>2, <1>3, <1>6, <2>1, <2>3
  <2>. QED  BY <2>2, <2>3
<1>9. m'["total"] = Len(durations') - Left("total")'
  <2>1. m["total"] = Len(durations) - Left("total")
    BY DEF Recording
  <2>2. Written("total") = m["total"] + 1
    BY DEF Written
  <2>. QED  BY <1>1, <1>2, <1>3, <1>4, <1>5, <1>6, <2>1, <2>2
<1>10. m'["lastSuccess"] = IF Len(stamps') = Left("lastSuccess")' THEN 0
                           ELSE stamps'[Len(stamps') - Left("lastSuccess")']
  <2>1. m["lastSuccess"] = IF Len(stamps) = Left("lastSuccess") THEN 0
                           ELSE stamps[Len(stamps) - Left("lastSuccess")]
    BY DEF Recording
  <2>2. CASE h = "lastSuccess"
    <3>1. Written("lastSuccess") = start.wall
      BY DEF Written
    <3>2. Left("lastSuccess")' = 0 /\ m'["lastSuccess"] = start.wall
      BY <1>2, <1>3, <1>6, <2>2, <3>1
    <3>3. Len(stamps) # 0 /\ Len(stamps) - 0 = Len(stamps) /\ stamps[Len(stamps)] = start.wall
      BY <1>1, <1>4, <1>5, <2>2
    <3>. QED  BY <1>1, <3>2, <3>3
  <2>3. CASE h # "lastSuccess"
    BY <1>1, <1>2, <1>3, <1>6, <2>1, <2>3
  <2>. QED  BY <2>2, <2>3
<1>11. (LET polls == 1..(Len(durations) - Left("sum"))
        IN  IsFiniteSet(Units(polls)) /\ m["sum"] = Cardinality(Units(polls)))'
  <2>. DEFINE n == Len(durations) - Left("sum")
  <2>1. IsFiniteSet(Units(1..n)) /\ m["sum"] = Cardinality(Units(1..n))
    BY DEF Recording
  <2>2. \A polls : Units(polls)' = Units(polls)
    BY <1>1 DEF Units
  <2>3. CASE h = "sum"
    <3>1. m'["sum"] = m["sum"] + durations[Len(durations)]
      BY <1>2, <1>6, <2>3 DEF Written, duration
    <3>2. n \in Nat /\ n + 1 = Len(durations) /\ Left("sum")' = 0
      BY <1>3, <1>4, <1>5, <2>3
    <3>. HIDE DEF n
    <3>3. /\ IsFiniteSet(Units(1..(n + 1)))
          /\ Cardinality(Units(1..(n + 1))) = Cardinality(Units(1..n)) + durations[n + 1]
      BY <1>1, <1>5, <2>1, <3>2, UnitsGrow
    <3>4. Len(durations') - Left("sum")' = n + 1
      BY <1>1, <1>5, <3>2
    <3>. QED  BY <2>1, <2>2, <3>1, <3>2, <3>3, <3>4
  <2>4. CASE h # "sum"
    <3>1. m'["sum"] = m["sum"] /\ Len(durations') - Left("sum")' = n
      BY <1>1, <1>2, <1>3, <1>6, <2>4
    <3>. HIDE DEF n
    <3>. QED  BY <2>1, <2>2, <3>1
  <2>. QED  BY <2>3, <2>4
<1>12. (LET polls == 1..(Len(durations) - Left("counts"))
        IN  \A b \in Bounds : m["counts"][b] = Cardinality(NoLonger(polls, b)))'
  <2>. DEFINE n == Len(durations) - Left("counts")
  <2>1. \A b \in Bounds : m["counts"][b] = Cardinality(NoLonger(1..n, b))
    BY DEF Recording
  <2>2. \A polls, b : NoLonger(polls, b)' = NoLonger(polls, b)
    BY <1>1 DEF NoLonger
  <2>3. CASE h = "counts"
    <3>1. m'["counts"] = [b \in Bounds |->
             m["counts"][b] + (IF durations[Len(durations)] <= b THEN 1 ELSE 0)]
      BY <1>2, <1>6, <2>3 DEF Written, duration
    <3>2. n \in Nat /\ n + 1 = Len(durations) /\ Left("counts")' = 0
      BY <1>3, <1>4, <1>5, <2>3
    <3>. HIDE DEF n
    <3>3. ASSUME NEW b \in Bounds
          PROVE  m'["counts"][b] = Cardinality(NoLonger(1..(n + 1), b))
      <4>1. Cardinality(NoLonger(1..(n + 1), b)) =
               Cardinality(NoLonger(1..n, b)) + (IF durations[n + 1] <= b THEN 1 ELSE 0)
        <5>1. n + 1 <= Len(durations)
          BY <1>5, <3>2
        <5>. QED  BY <1>1, <3>2, <5>1, NoLongerGrows, Zenon
      <4>. QED  BY <2>1, <3>1, <3>2, <4>1
    <3>4. Len(durations') - Left("counts")' = n + 1
      BY <1>1, <1>5, <3>2
    <3>. QED  BY <2>2, <3>3, <3>4
  <2>4. CASE h # "counts"
    <3>1. m'["counts"] = m["counts"] /\ Len(durations') - Left("counts")' = n
      BY <1>1, <1>2, <1>3, <1>6, <2>4
    <3>. HIDE DEF n
    <3>. QED  BY <2>1, <2>2, <3>1
  <2>. QED  BY <2>3, <2>4
<1>. QED  BY <1>7, <1>8, <1>9, <1>10, <1>11, <1>12 DEF Recording

LEMMA StepRecording ==
    ASSUME Types, Order, Recording, [Next]_vars
    PROVE  Recording'
<1>1. CASE Tick \/ (\E d \in 1..MaxStep : StepClock(d)) \/ StartPoll \/ Pause
  BY <1>1, RecordingKept DEF Tick, StepClock, StartPoll, Pause, loop
<1>2. CASE ScrapeStarts \/ ScrapeReads \/ ScrapeEnds
  BY <1>2, RecordingKept DEF ScrapeStarts, ScrapeReads, ScrapeEnds, loop
<1>3. CASE ProbeReads \/ ProbeAnswers \/ ProbeEnds
  BY <1>3, RecordingKept DEF ProbeReads, ProbeAnswers, ProbeEnds, loop
<1>4. CASE UNCHANGED vars
  BY <1>4, RecordingKept DEF vars, loop
<1>. QED
  BY <1>1, <1>2, <1>3, <1>4, RecordingOfGood, RecordingOfFailed, RecordingOfWrite DEF Next

-----------------------------------------------------------------------------
(* The scrape.                                                             *)

\* The two counters of the polls come first, and every series comes.
LEMMA ExpositionOrder ==
    ASSUME NEW e \in Expositions
    PROVE  /\ e \in Seq(Exposed)
           /\ \A i, j \in 1..Len(e) : i <= j /\ e[j] \in PollsTotal => e[i] \in PollsTotal
           /\ \A s \in Series : \E i \in 1..Len(e) : s \in Read(e[i])
<1>. DEFINE tail == <<"kind", "histogram", "inCity", "inFence", "lastPoll", "lastSuccess",
                      "new", "gone", "skipped">>
<1>1. PICK p \in {<<"success", "error">>, <<"error", "success">>} : e = p \o tail
  BY DEF Expositions
<1>2. /\ p \in Seq(Exposed) /\ Len(p) = 2
      /\ p[1] \in PollsTotal /\ p[2] \in PollsTotal
      /\ \A s \in PollsTotal : p[1] = s \/ p[2] = s
  <2>1. ASSUME p = <<"success", "error">>
        PROVE  /\ p \in Seq(Exposed) /\ Len(p) = 2 /\ p[1] = "success" /\ p[2] = "error"
    BY <2>1 DEF Exposed, Series
  <2>2. ASSUME p = <<"error", "success">>
        PROVE  /\ p \in Seq(Exposed) /\ Len(p) = 2 /\ p[1] = "error" /\ p[2] = "success"
    BY <2>2 DEF Exposed, Series
  <2>3. p \in Seq(Exposed) /\ Len(p) = 2
    BY <2>1, <2>2
  <2>. QED  BY <2>1, <2>2, <2>3 DEF PollsTotal
<1>3. /\ tail \in Seq(Exposed) /\ Len(tail) = 9
  BY DEF Exposed, Series
<1>4. e \in Seq(Exposed)
  BY <1>1, <1>2, <1>3
<1>5. Len(e) = 11 /\ \A i \in 1..11 : e[i] = IF i <= 2 THEN p[i] ELSE tail[i - 2]
  <2>1. /\ Len(e) = Len(p) + Len(tail)
        /\ \A i \in 1..(Len(p) + Len(tail)) : e[i] = IF i <= Len(p) THEN p[i] ELSE tail[i - Len(p)]
    <3>. HIDE DEF tail
    <3>1. p \in Seq(Exposed) /\ tail \in Seq(Exposed)
      BY <1>2, <1>3
    <3>. QED  BY <1>1, <3>1, ConcatProperties
  <2>2. 2 + 9 = 11
    OBVIOUS
  <2>. HIDE DEF tail
  <2>. QED  BY <1>2, <1>3, <2>1, <2>2
<1>6. /\ e[1] = p[1] /\ e[2] = p[2] /\ e[3] = "kind" /\ e[4] = "histogram" /\ e[5] = "inCity"
      /\ e[6] = "inFence" /\ e[7] = "lastPoll" /\ e[8] = "lastSuccess" /\ e[9] = "new"
      /\ e[10] = "gone" /\ e[11] = "skipped"
  BY <1>5
<1>7. \A i \in 1..Len(e) : e[i] \in PollsTotal <=> i <= 2
  <2>1. ASSUME NEW i \in 3..11 PROVE e[i] \notin PollsTotal
    <3>1. i \in {3, 4, 5, 6, 7, 8, 9, 10, 11}
      OBVIOUS
    <3>. QED  BY <1>6, <3>1 DEF PollsTotal
  <2>2. ASSUME NEW i \in 1..2 PROVE e[i] \in PollsTotal
    <3>1. i = 1 \/ i = 2
      OBVIOUS
    <3>. QED  BY <1>2, <1>6, <3>1
  <2>. QED  BY <1>5, <2>1, <2>2
<1>8. \A i, j \in 1..Len(e) : i <= j /\ e[j] \in PollsTotal => e[i] \in PollsTotal
  BY <1>5, <1>7
<1>9. ASSUME NEW s \in Series
      PROVE  \E i \in 1..Len(e) : s \in Read(e[i])
  <2>1. \A i \in {1, 2, 3, 4, 5, 6, 7, 8, 9, 10, 11} : i \in 1..Len(e)
    BY <1>5
  <2>2. CASE s \in PollsTotal
    <3>1. \E i \in {1, 2} : e[i] = s
      BY <1>2, <1>6, <2>2
    <3>. QED  BY <2>1, <2>2, <3>1 DEF Read, PollsTotal
  <2>3. CASE s \in {"sum", "total", "counts"}
    <3>1. s \in Read(e[4])
      BY <1>6, <2>3 DEF Read
    <3>. QED  BY <2>1, <3>1
  <2>4. CASE s \notin PollsTotal \cup {"sum", "total", "counts"}
    <3>1. \/ s = "kind" \/ s = "inCity" \/ s = "inFence" \/ s = "skipped" \/ s = "lastPoll"
          \/ s = "lastSuccess" \/ s = "new" \/ s = "gone"
      BY <2>4 DEF Series, PollsTotal
    <3>2. \E i \in {1, 2, 3, 4, 5, 6, 7, 8, 9, 10, 11} : e[i] = s
      BY <1>6, <3>1, Zenon
    <3>3. s \in Read(s)
      BY <3>1 DEF Read
    <3>. QED  BY <2>1, <3>2, <3>3
  <2>. QED  BY <2>2, <2>3, <2>4
<1>. QED  BY <1>4, <1>8, <1>9

\* What one read adds to a scrape.
LEMMA ReadAdds ==
    ASSUME Reading, ScrapeReads
    PROVE  /\ unread # << >> /\ Head(unread) \in Exposed
           /\ DOMAIN shown' = DOMAIN shown \cup Read(Head(unread))
           /\ \A s \in DOMAIN shown : shown'[s] = shown[s]
           /\ \A s \in DOMAIN shown' \ DOMAIN shown : s \in Read(Head(unread)) /\ shown'[s] = m[s]
           /\ Head(unread) \notin PollsTotal => PollsTotal \subseteq DOMAIN shown
<1>1. unread # << >> /\ unread \in Seq(Exposed)
  BY DEF Reading, ScrapeReads
<1>2. Head(unread) \in Exposed /\ Head(unread) = unread[1] /\ 1 \in 1..Len(unread) /\ Len(unread) \in Nat
  BY <1>1
<1>3. shown' = [s \in DOMAIN shown \cup Read(Head(unread)) |->
                   IF s \in DOMAIN shown THEN shown[s] ELSE m[s]]
  BY DEF ScrapeReads
<1>4. ASSUME Head(unread) \notin PollsTotal, NEW s \in PollsTotal
      PROVE  s \in DOMAIN shown
  <2>1. \A i \in 1..Len(unread) : unread[i] \notin PollsTotal
    BY <1>2, <1>4 DEF Reading
  <2>2. \A i \in 1..Len(unread) : s \notin Read(unread[i])
    BY <1>4, <2>1 DEF Read, PollsTotal
  <2>. QED  BY <1>1, <1>4, <2>2 DEF Reading, PollsTotal, Series
<1>. QED  BY <1>1, <1>2, <1>3, <1>4

LEMMA ReadingOfRead ==
    ASSUME Reading, ScrapeReads
    PROVE  Reading'
<1>. DEFINE h == Head(unread)
<1>1. /\ unread # << >> /\ h \in Exposed /\ unread' = Tail(unread) /\ unread \in Seq(Exposed)
      /\ DOMAIN shown' = DOMAIN shown \cup Read(h)
      /\ h \notin PollsTotal => PollsTotal \subseteq DOMAIN shown
  BY ReadAdds DEF ScrapeReads, Reading
<1>2. /\ unread' \in Seq(Exposed) /\ Len(unread) \in Nat /\ Len(unread') = Len(unread) - 1
      /\ h = unread[1] /\ 1 \in 1..Len(unread)
      /\ \A i \in 1..Len(unread') : i + 1 \in 1..Len(unread) /\ unread'[i] = unread[i + 1]
      /\ \A i \in 2..Len(unread) : i - 1 \in 1..Len(unread') /\ unread'[i - 1] = unread[i]
  BY <1>1
<1>. HIDE DEF h
<1>3. DOMAIN shown' \subseteq Series
  BY <1>1 DEF Reading, Read, Exposed, Series
<1>4. ASSUME NEW i \in 1..Len(unread'), NEW j \in 1..Len(unread'), i <= j,
             unread'[j] \in PollsTotal
      PROVE  unread'[i] \in PollsTotal
  <2>1. i + 1 <= j + 1
    BY <1>4
  <2>. QED  BY <1>2, <1>4, <2>1 DEF Reading
<1>5. ASSUME NEW s \in Series \ DOMAIN shown'
      PROVE  \E i \in 1..Len(unread') : s \in Read(unread'[i])
  <2>1. s \notin DOMAIN shown /\ s \notin Read(h)
    BY <1>1
  <2>2. PICK i \in 1..Len(unread) : s \in Read(unread[i])
    BY <1>1, <2>1 DEF Reading
  <2>3. i # 1
    BY <1>2, <2>1, <2>2
  <2>4. i \in 2..Len(unread)
    BY <1>2, <2>3
  <2>. QED  BY <1>2, <2>2, <2>4
<1>6. DOMAIN shown' \subseteq PollsTotal \/ \A i \in 1..Len(unread') : unread'[i] \notin PollsTotal
  <2>1. CASE h \in PollsTotal
    <3>1. DOMAIN shown \subseteq PollsTotal
      BY <1>2, <2>1 DEF Reading
    <3>2. Read(h) \subseteq PollsTotal
      BY <2>1 DEF Read, PollsTotal
    <3>. QED  BY <1>1, <3>1, <3>2
  <2>2. CASE h \notin PollsTotal
    <3>1. \A j \in 1..Len(unread) : 1 <= j
      OBVIOUS
    <3>2. \A j \in 1..Len(unread) : unread[j] \notin PollsTotal
      BY <1>2, <2>2, <3>1 DEF Reading
    <3>. QED  BY <1>2, <3>2
  <2>. QED  BY <2>1, <2>2
<1>7. \A s \in {"sum", "counts"} : s \in DOMAIN shown' <=> "total" \in DOMAIN shown'
  BY <1>1 DEF Reading, Read, Exposed, Series
<1>. QED  BY <1>2, <1>3, <1>4, <1>5, <1>6, <1>7 DEF Reading

LEMMA StepReading ==
    ASSUME Reading, [Next]_vars
    PROVE  Reading'
<1>1. CASE ScrapeStarts
  <2>1. unread' \in Expositions /\ shown' = shown /\ DOMAIN shown = {}
    BY <1>1 DEF ScrapeStarts, Idle
  <2>. QED  BY <2>1, ExpositionOrder DEF Reading
<1>2. CASE ScrapeEnds
  <2>1. unread' = << >> /\ DOMAIN shown' = {}
    BY <1>2 DEF ScrapeEnds
  <2>2. unread' \in Seq(Exposed) /\ Len(unread') = 0
    BY <2>1
  <2>. QED  BY <2>1, <2>2 DEF Reading
<1>3. CASE UNCHANGED <<unread, shown>>
  BY <1>3 DEF Reading
<1>4. CASE \/ Tick \/ (\E d \in 1..MaxStep : StepClock(d)) \/ StartPoll \/ Good \/ Failed
           \/ Write \/ Pause \/ ProbeReads \/ ProbeAnswers \/ ProbeEnds \/ UNCHANGED vars
  BY <1>3, <1>4 DEF Tick, StepClock, StartPoll, Good, Failed, Write, Pause, ProbeReads,
                    ProbeAnswers, ProbeEnds, vars, scrape
<1>. QED  BY <1>1, <1>2, <1>4, ReadingOfRead DEF Next

\* What is read after the two counters is read with them.
LEMMA CountersFirst ==
    ASSUME Reading, NEW s \in DOMAIN shown, s \notin PollsTotal
    PROVE  "success" \in DOMAIN shown /\ "error" \in DOMAIN shown
<1>1. \A i \in 1..Len(unread) : unread[i] \notin PollsTotal
  BY DEF Reading
<1>2. \A i \in 1..Len(unread) : "success" \notin Read(unread[i]) /\ "error" \notin Read(unread[i])
  BY <1>1 DEF Read, PollsTotal
<1>. QED  BY <1>2 DEF Reading, Series

\* A scrape that waits is overtaken by polls, and its bounds still hold.
LEMMA LagKept ==
    ASSUME Types, Order, Reading, Lag, HistogramWhole, UNCHANGED shown,
           \/ UNCHANGED <<durations, stamps>>
           \/ Good \/ Failed
    PROVE  Lag' /\ HistogramWhole'
<1>1. /\ durations \in Seq(Nat) /\ stamps \in Seq(Int) /\ start.wall \in Int
      /\ now - start.real \in Nat
  <2>1. durations \in Seq(Nat) /\ start.real <= now
    BY DEF Order
  <2>2. now \in Nat /\ start.real \in Nat /\ stamps \in Seq(Int) /\ start.wall \in Int
    BY DEF Types
  <2>3. now - start.real \in Nat
    BY <2>1, <2>2
  <2>. QED  BY <2>1, <2>2, <2>3
<1>2. \/ UNCHANGED durations
      \/ durations' = Append(durations, now - start.real)
  BY DEF Good, Failed
<1>3. \/ UNCHANGED stamps
      \/ stamps' = Append(stamps, start.wall) /\ durations' = Append(durations, now - start.real)
  BY DEF Good, Failed
<1>4. /\ Len(durations) \in Nat /\ Len(stamps) \in Nat
      /\ Len(durations') \in {Len(durations), Len(durations) + 1}
  BY <1>1, <1>2, AppendProperties
<1>5. /\ Len(stamps') \in {Len(stamps), Len(stamps) + 1}
      /\ \A i \in 1..Len(stamps) : stamps'[i] = stamps[i]
  <2>1. CASE UNCHANGED stamps
    BY <2>1
  <2>2. CASE stamps' = Append(stamps, start.wall)
    BY <1>1, <2>2, AppendProperties
  <2>. QED  BY <1>3, <2>1, <2>2
<1>6. Len(stamps') = Len(stamps) + 1 => Len(durations') = Len(durations) + 1
  <2>1. CASE UNCHANGED stamps
    BY <1>4, <2>1
  <2>2. CASE durations' = Append(durations, now - start.real)
    BY <1>1, <2>2, AppendProperties
  <2>. QED  BY <1>3, <2>1, <2>2
<1>7. Len(stamps) <= Len(stamps') /\ Len(durations) <= Len(durations')
      /\ Len(durations) - Len(stamps) <= Len(durations') - Len(stamps')
  BY <1>4, <1>5, <1>6
<1>8. "success" \in DOMAIN shown' => shown'["success"] \in Int /\ shown'["success"] <= Len(stamps')
  BY <1>4, <1>5, <1>7 DEF Lag
<1>9. "error" \in DOMAIN shown' =>
         shown'["error"] \in Int /\ shown'["error"] <= Len(durations') - Len(stamps')
  BY <1>4, <1>5, <1>7 DEF Lag
<1>10. "total" \in DOMAIN shown' =>
         /\ shown'["total"] \in 0..Len(durations')
         /\ shown'["total"] >= shown'["success"] + shown'["error"] - 1
  BY <1>4, <1>7 DEF Lag
<1>11. "lastSuccess" \in DOMAIN shown' /\ shown'["success"] > 1 =>
         \E i \in (shown'["success"] - 1)..Len(stamps') : shown'["lastSuccess"] = stamps'[i]
  <2>1. SUFFICES ASSUME "lastSuccess" \in DOMAIN shown, shown["success"] > 1,
                        "success" \in DOMAIN shown
                 PROVE  \E i \in (shown["success"] - 1)..Len(stamps') : shown["lastSuccess"] = stamps'[i]
    <3>1. "lastSuccess" \notin PollsTotal
      BY DEF PollsTotal
    <3>. QED  BY <3>1, CountersFirst
  <2>2. PICK i \in (shown["success"] - 1)..Len(stamps) : shown["lastSuccess"] = stamps[i]
    BY <2>1 DEF Lag
  <2>3. shown["success"] \in Int
    BY <2>1 DEF Lag
  <2>4. i \in 1..Len(stamps) /\ i \in (shown["success"] - 1)..Len(stamps')
    BY <1>4, <1>5, <1>7, <2>1, <2>2, <2>3
  <2>. QED  BY <1>5, <2>2, <2>4
<1>12. Lag'
  BY <1>8, <1>9, <1>10, <1>11 DEF Lag
<1>13. HistogramWhole'
  <2>1. SUFFICES ASSUME "total" \in DOMAIN shown
                 PROVE  (LET polls == 1..shown["total"]
                         IN  /\ shown["sum"] = Cardinality(Units(polls))
                             /\ \A b \in Bounds :
                                   shown["counts"][b] = Cardinality(NoLonger(polls, b)))'
    BY DEF HistogramWhole
  <2>. DEFINE polls == 1..shown["total"]
  <2>2. polls \subseteq 1..Len(durations)
    <3>1. shown["total"] \in 0..Len(durations)
      BY <2>1 DEF Lag
    <3>. QED  BY <1>4, <3>1
  <2>3. /\ shown["sum"] = Cardinality(Units(polls))
        /\ \A b \in Bounds : shown["counts"][b] = Cardinality(NoLonger(polls, b))
    BY <2>1 DEF HistogramWhole
  <2>4. /\ UNION {{i} \X (1..durations'[i]) : i \in polls} = Units(polls)
        /\ \A b : {i \in polls : durations'[i] <= b} = NoLonger(polls, b)
    <3>1. CASE UNCHANGED durations
      BY <3>1 DEF Units, NoLonger
    <3>2. CASE durations' = Append(durations, now - start.real)
      <4>. HIDE DEF polls
      <4>. QED  BY <1>1, <2>2, <3>2, UnitsStay
    <3>. QED  BY <1>2, <3>1, <3>2
  <2>. QED  BY <2>3, <2>4 DEF Units, NoLonger
<1>. QED  BY <1>12, <1>13

\* A series that is read is behind its polls by one at most, and the histogram
\* is read when the writes of the poller have made it whole.
LEMMA LagOfRead ==
    ASSUME Types, Order, Recording, Reading, Lag, HistogramWhole, ScrapeReads
    PROVE  Lag' /\ HistogramWhole'
<1>. DEFINE h == Head(unread)
            fresh == DOMAIN shown' \ DOMAIN shown
<1>1. /\ h \in Exposed
      /\ DOMAIN shown' = DOMAIN shown \cup Read(h)
      /\ \A s \in DOMAIN shown : shown'[s] = shown[s]
      /\ \A s \in fresh : s \in Read(h) /\ shown'[s] = m[s]
      /\ h \notin PollsTotal => PollsTotal \subseteq DOMAIN shown
  BY ReadAdds
<1>2. /\ durations' = durations /\ stamps' = stamps
      /\ Len(durations) \in Nat /\ Len(stamps) \in Nat
      /\ stamps \in Seq(Int) /\ durations \in Seq(Nat)
  <2>1. stamps \in Seq(Int) /\ durations \in Seq(Nat)
    BY DEF Types, Order
  <2>. QED  BY <2>1 DEF ScrapeReads, loop
<1>3. /\ \A s : Left(s) \in {0, 1}
      /\ Left("total") = 1 => Len(durations) > 0
  <2>1. Left("total") = 1 => todo # << >>
    BY NoneLeft
  <2>2. todo # << >> => durations # << >>
    BY DEF Types, Order
  <2>. QED  BY <1>2, <2>1, <2>2, LeftIsBit
<1>. HIDE DEF h, fresh
<1>4. /\ \A s \in OfGood : m[s] = Len(stamps) - Left(s)
      /\ \A s \in OfFailed : m[s] = Len(durations) - Len(stamps) - Left(s)
      /\ m["total"] = Len(durations) - Left("total")
  BY DEF Recording
<1>5. "success" \in OfGood /\ "error" \in OfFailed /\ "kind" \in OfFailed
  BY DEF OfGood, OfFailed
<1>6. /\ "success" \in DOMAIN shown => shown["success"] \in Int /\ shown["success"] <= Len(stamps)
      /\ "error" \in DOMAIN shown =>
            shown["error"] \in Int /\ shown["error"] <= Len(durations) - Len(stamps)
  BY DEF Lag
\* All but the two counters are read after them.
<1>7. ASSUME NEW s \in fresh, s \notin PollsTotal
      PROVE  /\ PollsTotal \subseteq DOMAIN shown /\ shown'[s] = m[s]
             /\ shown'["success"] = shown["success"] /\ shown'["error"] = shown["error"]
             /\ shown["success"] \in Int /\ shown["success"] <= Len(stamps)
             /\ shown["error"] \in Int /\ shown["error"] <= Len(durations) - Len(stamps)
  <2>1. h \notin PollsTotal
    BY <1>1, <1>7 DEF Read, PollsTotal
  <2>2. "success" \in DOMAIN shown /\ "error" \in DOMAIN shown
    BY <1>1, <2>1 DEF PollsTotal
  <2>. QED  BY <1>1, <1>6, <1>7, <2>1, <2>2
\* And what was read of them stays.
<1>8. ASSUME NEW s \in DOMAIN shown, s \notin PollsTotal
      PROVE  /\ shown'[s] = shown[s]
             /\ shown'["success"] = shown["success"] /\ shown'["error"] = shown["error"]
  <2>1. "success" \in DOMAIN shown /\ "error" \in DOMAIN shown
    BY <1>8, CountersFirst
  <2>. QED  BY <1>1, <2>1
<1>9. \A s \in DOMAIN shown' : s \in DOMAIN shown \/ s \in fresh
  BY DEF fresh
<1>10. "success" \in DOMAIN shown' => shown'["success"] \in Int /\ shown'["success"] <= Len(stamps')
  <2>1. CASE "success" \in DOMAIN shown
    BY <1>1, <1>2, <1>6, <2>1
  <2>2. CASE "success" \in fresh
    <3>1. shown'["success"] = Len(stamps) - Left("success") /\ Left("success") \in {0, 1}
      BY <1>1, <1>3, <1>4, <1>5, <2>2
    <3>. QED  BY <1>2, <3>1
  <2>. QED  BY <1>9, <2>1, <2>2
<1>11. "error" \in DOMAIN shown' =>
          shown'["error"] \in Int /\ shown'["error"] <= Len(durations') - Len(stamps')
  <2>1. CASE "error" \in DOMAIN shown
    BY <1>1, <1>2, <1>6, <2>1
  <2>2. CASE "error" \in fresh
    <3>1. shown'["error"] = Len(durations) - Len(stamps) - Left("error") /\ Left("error") \in {0, 1}
      BY <1>1, <1>3, <1>4, <1>5, <2>2
    <3>. QED  BY <1>2, <3>1
  <2>. QED  BY <1>9, <2>1, <2>2
<1>12. "total" \in DOMAIN shown' =>
          /\ shown'["total"] \in 0..Len(durations')
          /\ shown'["total"] >= shown'["success"] + shown'["error"] - 1
  <2>0. "total" \notin PollsTotal
    BY DEF PollsTotal
  <2>1. CASE "total" \in DOMAIN shown
    BY <1>2, <1>8, <2>0, <2>1 DEF Lag
  <2>2. CASE "total" \in fresh
    <3>1. shown'["total"] = Len(durations) - Left("total") /\ Left("total") \in {0, 1}
      BY <1>3, <1>4, <1>7, <2>0, <2>2
    <3>2. shown'["total"] \in 0..Len(durations)
      BY <1>2, <1>3, <3>1
    <3>3. shown'["total"] >= shown'["success"] + shown'["error"] - 1
      BY <1>2, <1>7, <2>0, <2>2, <3>1
    <3>. QED  BY <1>2, <3>2, <3>3
  <2>. QED  BY <1>9, <2>1, <2>2
<1>13. "kind" \in DOMAIN shown' => shown'["kind"] >= shown'["error"] - 1
  <2>0. "kind" \notin PollsTotal
    BY DEF PollsTotal
  <2>1. CASE "kind" \in DOMAIN shown
    BY <1>8, <2>0, <2>1 DEF Lag
  <2>2. CASE "kind" \in fresh
    <3>1. shown'["kind"] = Len(durations) - Len(stamps) - Left("kind") /\ Left("kind") \in {0, 1}
      BY <1>3, <1>4, <1>5, <1>7, <2>0, <2>2
    <3>. QED  BY <1>2, <1>7, <2>0, <2>2, <3>1
  <2>. QED  BY <1>9, <2>1, <2>2
<1>14. ASSUME NEW s \in OfGood \ {"success"}, s \in DOMAIN shown'
       PROVE  shown'[s] >= shown'["success"] - 1
  <2>0. s \notin PollsTotal /\ s \in OfGood
    BY DEF PollsTotal, OfGood
  <2>1. CASE s \in DOMAIN shown
    BY <1>8, <2>0, <2>1 DEF Lag
  <2>2. CASE s \in fresh
    <3>1. shown'[s] = Len(stamps) - Left(s) /\ Left(s) \in {0, 1}
      BY <1>3, <1>4, <1>7, <2>0, <2>2
    <3>. QED  BY <1>2, <1>7, <2>0, <2>2, <3>1
  <2>. QED  BY <1>9, <1>14, <2>1, <2>2
<1>15. "lastSuccess" \in DOMAIN shown' /\ shown'["success"] > 1 =>
          \E i \in (shown'["success"] - 1)..Len(stamps') : shown'["lastSuccess"] = stamps'[i]
  <2>0. "lastSuccess" \notin PollsTotal
    BY DEF PollsTotal
  <2>1. CASE "lastSuccess" \in DOMAIN shown
    BY <1>2, <1>8, <2>0, <2>1 DEF Lag
  <2>2. CASE "lastSuccess" \in fresh /\ shown'["success"] > 1
    <3>. DEFINE i == Len(stamps) - Left("lastSuccess")
    <3>1. shown'["success"] \in Int /\ shown'["success"] <= Len(stamps) /\ shown'["success"] > 1
          /\ shown'["lastSuccess"] = m["lastSuccess"]
      BY <1>7, <2>0, <2>2
    <3>2. i \in (shown'["success"] - 1)..Len(stamps) /\ Len(stamps) # Left("lastSuccess")
      <4>1. Left("lastSuccess") \in {0, 1}
        BY <1>3
      <4>. QED  BY <1>2, <3>1, <4>1
    <3>3. m["lastSuccess"] = stamps[i]
      BY <3>2 DEF Recording
    <3>. HIDE DEF i
    <3>. QED  BY <1>2, <3>1, <3>2, <3>3
  <2>. QED  BY <1>9, <2>1, <2>2
<1>16. Lag'
  BY <1>10, <1>11, <1>12, <1>13, <1>14, <1>15 DEF Lag
<1>17. HistogramWhole'
  <2>0. \A polls : Units(polls)' = Units(polls) /\ \A b : {i \in polls : durations'[i] <= b} = NoLonger(polls, b)
    BY <1>2 DEF Units, NoLonger
  <2>1. CASE "total" \in DOMAIN shown
    <3>1. "sum" \in DOMAIN shown /\ "counts" \in DOMAIN shown
      BY <2>1 DEF Reading
    <3>2. /\ shown'["total"] = shown["total"] /\ shown'["sum"] = shown["sum"]
          /\ shown'["counts"] = shown["counts"]
      BY <1>1, <2>1, <3>1
    <3>. QED  BY <1>2, <2>1, <3>2 DEF HistogramWhole, Units, NoLonger
  <2>2. CASE "total" \in fresh
    <3>1. "total" \notin DOMAIN shown /\ "total" \in Read(h)
      BY <1>1, <2>2 DEF fresh
    <3>2. h = "histogram"
      BY <1>1, <3>1 DEF Read, Exposed
    <3>3. "sum" \in fresh /\ "counts" \in fresh
      <4>1. "sum" \notin DOMAIN shown /\ "counts" \notin DOMAIN shown
        BY <3>1 DEF Reading
      <4>. QED  BY <1>1, <3>2, <4>1 DEF Read, fresh
    <3>4. shown'["total"] = m["total"] /\ shown'["sum"] = m["sum"] /\ shown'["counts"] = m["counts"]
      BY <1>1, <2>2, <3>3
    <3>5. ~Locked
      BY <3>2 DEF ScrapeReads, h
    <3>6. Left("sum") = Left("total") /\ Left("counts") = Left("total")
      <4>1. CASE todo = << >>
        BY <4>1, NoneLeft
      <4>2. CASE todo # << >>
        <5>1. phase = "record" /\ todo \in Seq(Series)
          BY <4>2 DEF Types, Order
        <5>. QED  BY <3>5, <4>2, <5>1, NextWrite
      <4>. QED  BY <4>1, <4>2
    <3>. DEFINE n == Len(durations) - Left("total")
    <3>7. /\ m["total"] = n /\ m["sum"] = Cardinality(Units(1..n))
          /\ \A b \in Bounds : m["counts"][b] = Cardinality(NoLonger(1..n, b))
      BY <3>6 DEF Recording
    <3>. HIDE DEF n
    <3>. QED  BY <1>2, <3>4, <3>7 DEF HistogramWhole, Units, NoLonger
  <2>3. CASE "total" \notin DOMAIN shown'
    BY <2>3 DEF HistogramWhole
  <2>. QED  BY <1>9, <2>1, <2>2, <2>3
<1>. QED  BY <1>16, <1>17

-----------------------------------------------------------------------------

ScrapeInv == Order /\ Recording /\ Reading /\ Lag /\ HistogramWhole

LEMMA InitScrapeInv == Init => ScrapeInv
<1>. SUFFICES ASSUME Init PROVE ScrapeInv
  OBVIOUS
<1>1. /\ todo = << >> /\ durations = << >> /\ stamps = << >> /\ unread = << >>
      /\ DOMAIN shown = {} /\ phase = "wait" /\ start.real = Epoch /\ now = Epoch
  BY DEF Init
<1>2. Order
  <2>1. Epoch <= Epoch
    BY TimeAssumption
  <2>2. durations \in Seq(Nat) /\ Len(stamps) <= Len(durations)
    BY <1>1
  <2>. QED  BY <1>1, <2>1, <2>2 DEF Order
<1>3. Recording
  <2>1. \A s : Left(s) = 0
    BY <1>1, NoneLeft
  <2>2. \A s \in Series \ {"counts"} : m[s] = 0
    BY DEF Init
  <2>3. "counts" \in Series /\ m["counts"] = [b \in Bounds |-> 0]
    BY DEF Init, Series
  <2>4. OfGood \cup OfFailed \cup {"total", "lastSuccess", "sum"} \subseteq Series \ {"counts"}
    BY DEF OfGood, OfFailed, Series
  <2>5. Len(durations) = 0 /\ Len(stamps) = 0
    BY <1>1
  <2>6. IsFiniteSet({}) /\ Cardinality({}) = 0
    BY FS_EmptySet
  <2>7. IsFiniteSet(Units(1..0)) /\ Cardinality(Units(1..0)) = 0
        /\ \A b : Cardinality(NoLonger(1..0, b)) = 0
    BY <2>6, UnitsOfNone
  <2>8. 0 - 0 = 0
    OBVIOUS
  <2>9. /\ \A s \in OfGood : m[s] = Len(stamps) - Left(s)
        /\ \A s \in OfFailed : m[s] = Len(durations) - Len(stamps) - Left(s)
        /\ m["total"] = Len(durations) - Left("total")
    BY <2>1, <2>2, <2>4, <2>5, <2>8
  <2>10. m["lastSuccess"] = 0 /\ Len(stamps) = Left("lastSuccess")
    BY <2>1, <2>2, <2>4, <2>5
  <2>11. m["sum"] = 0 /\ Len(durations) - Left("sum") = 0 /\ Len(durations) - Left("counts") = 0
    BY <2>1, <2>2, <2>4, <2>5
  <2>. QED  BY <2>3, <2>7, <2>9, <2>10, <2>11 DEF Recording
<1>4. Reading
  <2>1. unread \in Seq(Exposed) /\ Len(unread) = 0
    BY <1>1
  <2>. QED  BY <1>1, <2>1 DEF Reading
<1>5. Lag /\ HistogramWhole
  BY <1>1 DEF Lag, HistogramWhole
<1>. QED  BY <1>2, <1>3, <1>4, <1>5 DEF ScrapeInv

LEMMA StepScrapeInv ==
    ASSUME Types, ScrapeInv, [Next]_vars
    PROVE  ScrapeInv'
<1>1. Order /\ Recording /\ Reading /\ Lag /\ HistogramWhole
  BY DEF ScrapeInv
<1>2. Order' /\ Recording' /\ Reading'
  BY <1>1, StepOrder, StepRecording, StepReading
<1>3. Lag' /\ HistogramWhole'
  <2>1. CASE Good \/ Failed
    <3>1. UNCHANGED shown
      BY <2>1 DEF Good, Failed, scrape
    <3>. QED  BY <1>1, <2>1, <3>1, LagKept
  <2>2. CASE ScrapeReads
    BY <1>1, <2>2, LagOfRead
  <2>3. CASE ScrapeEnds
    <3>1. DOMAIN shown' = {}
      BY <2>3 DEF ScrapeEnds
    <3>. QED  BY <3>1 DEF Lag, HistogramWhole
  <2>4. CASE \/ Tick \/ (\E d \in 1..MaxStep : StepClock(d)) \/ StartPoll \/ Write \/ Pause
             \/ ScrapeStarts \/ ProbeReads \/ ProbeAnswers \/ ProbeEnds \/ UNCHANGED vars
    <3>1. UNCHANGED <<shown, durations, stamps>>
      BY <2>4 DEF Tick, StepClock, StartPoll, Write, Pause, ScrapeStarts, ProbeReads,
                  ProbeAnswers, ProbeEnds, vars, loop, scrape
    <3>. QED  BY <1>1, <3>1, LagKept
  <2>. QED  BY <2>1, <2>2, <2>3, <2>4 DEF Next
<1>. QED  BY <1>2, <1>3 DEF ScrapeInv

LEMMA ScrapeInvariance == Spec => []ScrapeInv
<1>1. IInv => Types
  BY DEF IInv
<1>2. Types /\ ScrapeInv /\ [Next]_vars => ScrapeInv'
  BY StepScrapeInv
<1>. QED  BY Invariance, InitScrapeInv, <1>1, <1>2, PTL DEF Spec

\* However the scrape falls between the lines of Histogram.Observe, the sum,
\* the count and the buckets it shows are those of the same polls, for every
\* schedule, every set of buckets and every number of polls.
THEOREM HistogramWholeHolds == Spec => []HistogramWhole
<1>1. ScrapeInv => HistogramWhole
  BY DEF ScrapeInv
<1>. QED  BY ScrapeInvariance, <1>1, PTL

\* However many polls overtake it, a scrape shows no series that is more than
\* one poll behind the polls it counts (WriteExposition, Observe*).
THEOREM SkewBoundedHolds == Spec => []SkewBounded
<1>1. ScrapeInv => SkewBounded
  <2>. SUFFICES ASSUME ScrapeInv, DOMAIN shown # {}, unread = << >>
                PROVE  /\ shown["total"] >= shown["success"] + shown["error"] - 1
                       /\ shown["kind"] >= shown["error"] - 1
                       /\ \A s \in {"inCity", "inFence", "skipped", "new", "gone"} :
                             shown[s] >= shown["success"] - 1
                       /\ shown["success"] > 1 =>
                             \E i \in (shown["success"] - 1)..Len(stamps) :
                                shown["lastSuccess"] = stamps[i]
    BY DEF SkewBounded
  <2>1. Series \subseteq DOMAIN shown
    <3>1. \A i \in 1..Len(unread) : FALSE
      OBVIOUS
    <3>. QED  BY <3>1 DEF ScrapeInv, Reading
  <2>2. Lag /\ {"total", "kind", "lastSuccess"} \subseteq DOMAIN shown
    BY <2>1 DEF ScrapeInv, Series
  <2>3. \A s \in {"inCity", "inFence", "skipped", "new", "gone"} :
           s \in OfGood \ {"success"} /\ s \in DOMAIN shown
    BY <2>1 DEF Series, OfGood
  <2>. QED  BY <2>2, <2>3 DEF Lag
<1>. QED  BY ScrapeInvariance, <1>1, PTL
=============================================================================
