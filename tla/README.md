# flexwatch in TLA+

flexwatch is a Go program that polls the car-sharing API of Communauto, finds
the vehicles within a circle, and announces those that newly appear.  This
directory holds TLA+ modules translated from its code, the TLC configurations
that check them on small instances, and theorems about them that the TLAPS
proof system checks.  Paths are relative to the repository (`src/` in
`PROJECT.json`).

- [1. The system](#1-the-system)
- [2. The modules](#2-the-modules)
- [3. The runs](#3-the-runs)
- [4. The proofs](#4-the-proofs)
- [5. Where the code and its documentation disagree](#5-where-the-code-and-its-documentation-disagree)
- [6. What is not modelled](#6-what-is-not-modelled)
- [7. The plan](#7-the-plan)

Inside this directory, `tlc -config X.cfg M` runs a configuration and
`tlapm M.tla` checks the proofs of a module.

## 1. The system

One process.  `cmd/flexwatch/main.go` reads the configuration, opens the
optional database, starts the admin server in a goroutine of its own, and runs
a single loop until a signal cancels its context.

| Component | State | Operations | What makes it correct |
|---|---|---|---|
| Detector, `internal/watch/detect.go` | `present`, `lastAlerted`, `started` | `Update` (with `shouldAlert` and `prune`) | an arrival is announced once, at once, and not again within the cooldown; the memory is bounded |
| Runner, `internal/watch/runner.go` | `failures`, where the loop waits | `Run`, `Poll`, `report`, `persist`, `nextDelay` | nothing detected is dropped; an outage is not a departure; the pace is bounded on both sides; a stop stops; the loop never ends by itself |
| API client and decoder, `internal/communauto` | none (one request at a time) | `FreeFloatingAvailability`, `parseAvailability` | every usable vehicle is found, nothing is invented, a drift of the schema is told from an empty circle |
| Sinks, `internal/notify` | a mutex around stdout | `Multi.Notify`, `Console.Notify`, `Telegram.Notify` | a sink that fails does not keep the others from being served |
| Metrics, `internal/metrics` | counters, gauges, a histogram, the time of the last good poll | `Observe*`, `WriteExposition`, `StaleAfter` | no increment is lost, a counter never goes down, readiness does not flap |
| Store, `internal/store` | the pool, the two tables | `Open`, `SaveSnapshot`, `Close` | a snapshot is whole or absent, a reported one is durable, no connection is lost |
| Process, `cmd/flexwatch/main.go` | the context, the deferred calls, the admin goroutine | `run`, `runOnce`, `openStore`, `startAdminServer` | ends on a signal, in the right order, with the right exit code |
| Configuration, `internal/config` | none | `Load`, `validate` | what is accepted is what was meant, and all faults are shown at once |
| Geometry, `internal/geo` | none | `DistanceKM`, `BBoxAround` | pure functions |
| Secret synchronisation, `deploy/scripts`, with `deploy/systemd` and `deploy/k8s` | the revision file, the Secret, the pods | the script, started by a timer or by hand; the rollout it asks for | a rotated secret reaches the program, and its restarts duplicate no alert |

How they interact.  `main` calls `Runner.Run`, which in each iteration calls
the client, hands the vehicles within the circle to `Detector.Update`, counts
the poll in the metrics, saves a snapshot, and lets the sinks announce
`diff.New`.  All of this is one goroutine.  The admin server reads the metrics
from other goroutines at any moment.  `ctx` reaches every call that waits, but
for the console sink.  The database may be used by two processes at a time (a
pod and its replacement).  Outside the process, `flexwatch-secret-sync.sh` copies
the Telegram secret from AWS into the cluster and restarts the deployment when
the revision of the Secret is not the one it has recorded in a file; a restart
empties the detector.

What is hard to test here: the rhythm of vehicles that flap at the edge of the
circle against the cooldown and the pruning; outages of any length at any
moment; a stop that races with an expired timer, a request, a transaction or
the start of the admin server; goroutines that create the same counter; scrapes
and probes in the middle of the recording of a poll; a wall clock that is set;
kills between two SQL statements or two commands of the script, and two runs of
it at once; answers of an undocumented API whose schema moves; floats that are
no numbers and durations at the limits of 64 bits.  `PROJECT.json` lists these as `hazards`,
each at its line, with the properties that watch it.

## 2. The modules

```
AppearanceFeed  <-- implemented by --  Detector  (DetectorRefinement)
      |                                   ^
      | INSTANCE                          | EXTENDS
      v                              DetectorHistory
   Runner  -- EXTENDS -->  Backoff  <-- EXTENDS --  BackoffLoop

Floats  <-- EXTENDS --  Decode, Config  <-- EXTENDS --  PollContent
CounterVec      Exposition      Store      Lifecycle      SecretSync
```

`MC...` modules give a module small values for TLC; `...Proofs` modules hold
theorems.  In every module a *mutant*, an operator whose name extends that of
the definition below it, is a plausible bug in that definition; it is used only
to see that the property it is listed with would notice.

**Detector** is `detect.go`.  A vehicle is its identifier, `NoID` the empty one
that `Update` skips; a poll hands over a *list*, in which identifiers may
repeat.  `Update` is one action: the loop (`Identified`, `shouldAlert`,
`Stamped`), the diff, the emptied `diff.New` of the first run, and `prune`
(`Expired`, `Pruned`) at its end.  The order in which a Go map is ranged over
does not matter here, so the three loops are set expressions.  `Wrapped` is the
64-bit product of `prune`.  `clock` stands for `time.Now()`; `Sub` uses the
monotonic reading, so it never goes back.

**AppearanceFeed** says what the detector promises without its stamps: each
vehicle has a remaining silence, an arrival whose silence is over is announced
and starts a new one.  **DetectorRefinement** gives the mapping (a stamp stands
for the silence that is left; a forgotten stamp for none).  **DetectorHistory**
adds what an observer has seen (`announcedAt`, `foundAt`), and states the
properties with it; the detector does not read it.

**Backoff** is `nextDelay`, `jitter` and `parseRetryAfter` as operators that
return the *set* of the durations the code may compute: every jitter, and both
results of a float conversion that is out of range (it saturates on arm64 and
yields the smallest integer on amd64; `Dockerfile` builds for arm64, developers
run amd64).  **BackoffLoop** is the loop with nothing but its count of failures
and its delay (`streak` is its `failures`); its theorems are at the end of
RunnerProofs, next to those about the loop that waits for these delays.

**Runner** is `runner.go` with its sinks, its readiness and its environment.
`pc` says where the one goroutine is: `poll`, `request` (inside the HTTP
client), `persist`, `report`, `sink` (inside one sink of `Multi.Notify`),
`wait` (the `select`), `stopped`.  A step takes no time; time passes in `Tick`,
only where the code waits (`Waiting`), and no longer than its deadline
(`timer`).  Where the `select` has both a stop and an expired wait, `WaitEnds`
takes either.  The detector appears as the `AppearanceFeed` it is proved to
implement, so that its clock and stamps need not be carried along.  The API is
`up` or not, at any moment; a request fails only if the API was down at some
moment since it was sent (`clean`), or by the stop.  `due`, `stayed` and
`upFor` are history.

**CounterVec** is `counterVec` of `metrics.go`, at the grain of its critical
sections: the optimistic read, the section under the write lock with its second
check, the atomic add outside both, and a scrape that holds the read lock while
it reads counter after counter (`unread`).  Today only the goroutine of the loop
calls `With`, next to scrapes; the code promises more (`metrics.go:108-110`), and
the module has any number of callers.

**Store** is `store_postgres.go`: one action per statement of `SaveSnapshot`,
with a failure, a cancelled context, a lost connection or a kill possible at
each; an error of COMMIT leaves open whether the server committed.  The deferred
`Rollback` is `Released`.  Identifiers come from a sequence that a rollback does
not reset.  The vehicles of a snapshot are counted, not named.

**Decode** is `decode.go` without state: JSON values are records with a kind,
objects are sets of fields with a lowercased name and a spelling; where Go
ranges over a map in random order (colliding spellings, `firstArray`), an
operator returns the set of possible results.  The vehicles that are kept are a
function of their places in the list (`Usable`).  A scalar carries the text and the
number the decoder makes of it; **Floats** has `NaN` and the comparisons of Go.

**Config** is `Load` as a function of the environment, which leaves each variable
unset, gives it a text its parser refuses, or a value.  A refused text counts as
the zero value in `validate`, as in the code, and `LoadErrors` are the variables
an error names.  **PollContent** puts the two together: the process is started in
an environment, an operator takes back what an error names until `Load` accepts
(`Correct`), and a poll goes from the status of an answer through the decoder and
the filter to the configured circle to `errorKind`.  `Haversine`, the length of
the arc between two places, is a constant operator of which nothing is assumed;
`DistanceKM` adds to it that a NaN gives NaN and equal places are at 0.  `EnvAssumption` says what an
environment may give to each parser (a text is never refused, a number is never
another kind of value), `ResponseAssumption` that an answer is a failure, a status
or a body whose lists are sequences.

**Exposition** is the rest of `metrics.go`, and `StaleAfter` of `server.go`.  The
loop is reduced to its clockwork (`StartPoll`, `Good`, `Failed`, `Pause`, with the
limits of the calls), but what it records of a poll is written one series at a
time (`todo`), `Histogram.Observe` line by line with its lock (`Locked`).  A
scrape reads series after series in the order of `WriteExposition`, and a probe
of `/readyz` reads the timestamp and then the wall clock, which is the monotonic
one plus an `offset` that may be stepped at any moment.  `durations`, `stamps`,
`goodAt`, `stepped` and `age` are history.

**SecretSync** is `flexwatch-secret-sync.sh`, one action per command; any of them
may fail, and the script may be killed at any of them (`Abort`), also in the
middle of the write of the revision file, which then is empty.  Runs of the timer
come one after the other, runs by hand beside them.  `kubectl rollout restart`
makes the pods there are old; the deployment (`replicas: 1`, `Recreate`) stops
them and creates a new one when none is left.  A container reads the Secret when
it starts, and of its detector we keep what concerns one vehicle: has there been
a poll, and was the vehicle present.  `asked` and `alerts` are history.

**Lifecycle** is `main.go`: one action per step of `run`, its deferred calls in
their order, the goroutine of the admin server, which may be scheduled at any
time, its clients, two signals, and a supervisor that starts the program again.
Timers (150 ms, `shutdownGrace`) may expire at any moment after they were set.

Constants that carry a value of the code: `MaxBackoff` (`maxBackoff`),
`NotifyTimeout`, `StaleAfter` and `MaxAge` (5 intervals), `MaxConns` (4), `maxBackoffExponent`
(20).  `TimeoutAssumption` (`HTTPTimeout <= PollInterval`) is what `validate`
refuses to start without, as `AcceptedIsMeant` checks.

## 3. The runs

| Run | Question | Instance |
|---|---|---|
| MCDetector | Does the cooldown hold in both directions however vehicles flap, and does `prune` forget only what does not matter? | 2 vehicles, lists of up to 2 with duplicates and empty identifiers, cooldown 2, clock to 7: 20 336 states |
| MCBackoff | Is every wait after a failure positive, capped and growing? | seconds, 20 s interval, 300 s cap, 24 failures in a row, 5 values of Retry-After: 786 states |
| MCRunner | Is nothing dropped, no outage taken for a departure, readiness steady, recovery prompt? | 1 vehicle, units of 5 s, cap 50 s, 4 failures, stop and outage at any moment: 723 296 states |
| RunnerLive | Does the stop always end `Run`, and does the loop go on for ever otherwise? | 1 vehicle, a database that may never answer, cap 3, 2 failures: 121 505 states |
| MCCounterVec | Is any increment lost, any scrape stale, any caller stuck? | 2 goroutines, 2 labels, 2 increments each, scrapes at any moment: 8 934 states |
| MCStore | Is a snapshot ever half there, a reported one missing, a connection lost? | 2 processes, a pool of 2, 3 calls, up to 2 vehicles: 37 634 states |
| MCPollContent | What does `Load` make of an environment, and a poll of an answer? | all environments with one setting or two related ones, some 500 answers: 26 282 states |
| Lifecycle | Does a process end on a signal, in order, with the right code? | 2 signals per process, 2 requests in flight: 357 states |
| MCExposition | What may a scrape and a probe see of a poll that is being recorded, and of a clock that is set? | 2 polls, units of 5 s, one step of the clock, time to 30: 4 390 338 states |
| MCSecretSync | Does a rotated secret arrive, and do the restarts duplicate an alert? | the timer and one run by hand, 2 rotations of which one is malformed, one run that dies, 2 pods: 637 698 states |
| IntervalOverflow, RadiusInRange | see section 5: the code contradicts what is written | the smallest instance that shows it |

What the properties say:

- `CooldownHonoured`, `ArrivalAnnounced`: announced if and only if it arrived
  and is not cooling, over all histories of leaving, coming back and pruning.
  `MemoryBounded`: whoever is remembered is present or was noticed within two
  cooldowns.  `ImplementsFeed`: the detector is the feed.
- `BackoffBounded`, `BackoffGrows`: the wait is positive and at most the cap,
  and the next failure does not shorten it beyond the jitter of the cap.
- `NothingDropped`: before the next poll and before `Run` returns, each sink was
  handed each announced vehicle.  `StayingIsSilent`: a vehicle that never left
  is not announced after an outage.  `ReadyWhileHealthy`: ready between two good
  polls although requests, Telegram and jitter take their time.
  `PromptRecovery`: a poll succeeds within `MaxRecovery` of the API's return.
  `Stops`: a stop ends `Run` wherever it waits.  `Recovers`, `StayingIsSeen`: only a
  stop ends it, and a vehicle that stays is seen in the end.
- `NothingLost`: what a label shows is the number of completed increments.
  `ScrapeIsCurrent`: a scrape is no older than its start and not ahead of the
  truth, so a counter never goes down from scrape to scrape.
  `EveryCallReturns`.
- `Whole`, `Durable`, `CallsReturn`.
- `EveryVehicleFound` and `NothingInvented` compare the decoder with a reading
  of the answer that knows only which values a field may have under its names
  (`Values`).  The former is about any place within the circle, and about a vehicle
  that can be read in one way only (`Plain`) in an answer whose list can be read in
  one way only (`Sole(Fleet)`, `NoTwins`): where two fields differ by their casing
  only, the code takes one of them at random, and may lose the vehicle.  The latter
  excludes, besides what no item says, the NaN and the (0, 0) that would lie within
  a circle around it.  `EmptyIsSaid`: no vehicle at all is a good result only if
  some list of the answer is empty; it need not be that of the vehicles (section 5).
  `DriftIsSchema`: when no item of the only list has an identifier and an
  acceptable position, the kind of the error is "schema".
  `AcceptedIsMeant`: under a configuration that is accepted no setting was
  silently replaced, and the assumptions of Runner and Detector hold.
  `OneCorrection`: whoever takes back what the error of `Load` names needs no
  second attempt.
- `HistogramWhole`: a scrape shows a histogram of the same first polls in its
  sum, count and buckets.  `SkewBounded`: series of one scrape may be of
  different polls, but what comes later in it lags by at most the one that is
  being recorded.  `VerdictIsTrue`: "ready" and "stale" are wrong by no more than
  the wall clock was stepped.  `ReadyDespiteSteps`: while polls are good, "stale"
  takes steps that exceed the slack of the five intervals.
- `NoStalePod`: when the file holds the revision of the Secret, so that no run
  will restart anything, no pod that stays has read an older one.
  `OneAlertPerStay`: through all restarts and crashes, a vehicle is announced
  once per stay at most.  `SecretArrives`: the last version of the secret, unless
  it is malformed, reaches every container, and then the restarts end.
- `SavesToOpenStore`: no snapshot is written after the store closes.
  `LeavesNothingOpen`: whichever way a process ends, also when more signals come
  during its shutdown, the store is closed, no snapshot is broken off and the admin
  server takes no more requests.  `StopIsNoFailure`, `TerminatesOnSignal`.

**Bounds.**  The clock of MCDetector passes three full cooldowns and one
forgetting, which is all that the stamp of a vehicle can go through before it
repeats; two vehicles are enough since no operator relates more than a vehicle
to itself, and the second one shows that they do not disturb each other.
`MaxFailures` lies past the exponent at which the cap is reached, where one more
failure changes nothing; in Runner the count saturates there.  MCRunner keeps
the proportions of the defaults (interval 20 s, timeout 10 s, notification
15 s), with a cap that three failures reach, and has no database, which its
timing properties exclude; RunnerLive has one, and `NothingDroppedTheorem` and
`StayingTheorem` cover both.  Two goroutines suffice for a label that is created
once.  MCStore has more calls than connections, so that one that
is lost is missed.  The answers of MCPollContent are all combinations of one
vehicle's identifiers and positions (flat, nested, quoted, NaN, null,
out of range, misspelt, a nested coordinate with a twin), several lists of one and two vehicles, and all forms of
the root, with names that collide in it, in a vehicle, and with other values than
lists under the names of the list; environments with more than two settings add no rule that relates
them.  Its centres include a pole and the antimeridian, where places with other
coordinates are within the circle (`MCHaversine`).  MCExposition lets both polls overtake a scrape (the jitter is as large as
the interval), and chooses the limits so that the slowest way from one good poll
to the next leaves one unit of `MaxAge`: one step of the clock must be harmless,
and a limit of four intervals is not enough.  MCSecretSync has one rotation after
the malformed one, so that the file may be right, stale or empty when a run by
hand overlaps one of the timer; `OneAlertPerStay` needs no more than two pods at
once to fail.

**Fairness** is stated only where liveness is checked.
*Runner*: the goroutine is scheduled and time passes (`WF` on its steps and
`Tick`); a sink returns unless stdout stalls, because Telegram has two
deadlines; the database is only sure to return once `ctx` is cancelled, which
pgx promises.  Nothing is assumed of the API, the vehicles or the signal;
`Recovers` and `StayingIsSeen` therefore name what they need of them
(`Undisturbed`, `<>[]up`).
*CounterVec*: goroutines are scheduled, and a writer gets the lock in the end
although scrapes come and go (`SF` on `Create`: a waiting writer of
`sync.RWMutex` stops new readers).
*Store*: the database answers a statement, well or badly.
*Lifecycle*: the main goroutine runs, and a poll ends (`SF` on its return:
`SaveSnapshot` may be entered again and again only until the stop, when the next
poll fails at once).  Nothing is assumed of the admin goroutine and its clients.
*SecretSync*: the timer starts its runs and their commands end (`OnUnitActiveSec`),
and the cluster stops, removes, creates and starts what it is asked to.  Nothing
is assumed of runs by hand, and only finitely many runs may die (`MaxAborts`).
Containers may crash for ever.

Deadlock is checked in every run.

## 4. The proofs

TLC shows a property on one instance; these hold for every value of the
constants.

| Theorem | Property | Assumes | Along |
|---|---|---|---|
| `TypeCorrect` | `TypeOK` of Detector | – | inductive as it stands |
| `TypeTheorem` | `TypeOK` of Runner | – | `TypeInv` |
| `CooldownTheorem`, `ArrivalTheorem`, `MemoryTheorem` | `CooldownHonoured`, `ArrivalAnnounced`, `MemoryBounded` | `CooldownFits` | `HistoryInv` (theorem `HistoryInvariant`) |
| `Refinement` | `ImplementsFeed` | `CooldownFits` | each `Update` is an `Observe`, each `Tick` an `Elapse` |
| `BackoffTheorem` | `BackoffBounded` | `DoublingFits` | lemmas on `jitter`, `Doubled`, `nextDelay` |
| `BackoffGrowsTheorem` | `BackoffGrows` | `DoublingFits`, `CapReached` | `delay \in Exponential(failures)`, the table of the powers of two up to 20 |
| `NothingDroppedTheorem` | `NothingDropped` | – | `DueInv` |
| `StayingTheorem` | `StayingIsSilent` | – | `StayedInv` |
| `ReadyTheorem` | `ReadyWhileHealthy` | no database, stdout does not stall | `AgeInv` |
| `RecoveryTheorem` | `PromptRecovery` | no database, stdout does not stall | `UpInv` |
| `NothingLostTheorem` | `NothingLost` | – | `CounterInv` |
| `ScrapeTheorem` | `ScrapeIsCurrent` | – | `ScrapeInv`, over `CounterInv` |
| `WholeTheorem`, `DurableTheorem` | `Whole`, `Durable` | – | `StoreInv` |
| `SavesTheorem`, `LeavesTheorem` | `SavesToOpenStore`, `LeavesNothingOpen` | – | `LifeInv` |
| `StopTheorem` | `StopIsNoFailure` | – | `StopInv`, over `LifeInv` |
| `VerdictIsTrueHolds`, `ReadyDespiteStepsHolds` | `VerdictIsTrue`, `ReadyDespiteSteps` | no timestamp is 0 (`MaxStep < Epoch`) | `IInv` |
| `HistogramWholeHolds`, `SkewBoundedHolds` | `HistogramWhole`, `SkewBounded` | – | `ScrapeInv` |
| `AcceptedIsMeantHolds`, `OneCorrectionHolds` | `AcceptedIsMeant`, `OneCorrection` | – | `Loaded`, cases over the rules |
| `NothingInventedHolds`, `EveryVehicleFoundHolds`, `EmptyIsSaidHolds`, `DriftIsSchemaHolds` | `NothingInvented`, `EveryVehicleFound`, `EmptyIsSaid`, `DriftIsSchema` | – | `Polled`, lemmas on the decoder |
| `NoStalePodHolds`, `OneAlertPerStayHolds` | `NoStalePod`, `OneAlertPerStay` | – | `IInv` |

Why the properties are not inductive by themselves, and what makes them so:

- *Detector.*  That an announcement respects the cooldown depends on stamps that
  `prune` may have deleted.  `HistoryInv` adds that a stamp is the time of the
  last notice (`StampsAreNotices`) and that whoever has no stamp any more was
  noticed more than two cooldowns ago (`ForgottenIsOld`).  This is where
  `CooldownFits` is needed: a `2 * realertAfter` that wraps deletes stamps too
  early.
- *Backoff.*  `DoublingFits` says that `PollInterval * 2^20` is a duration.
  Without it the theorem is false (run IntervalOverflow).  `CapReached` says that
  the largest doubling is no less than the cap, as the comment at `runner.go:22-25`
  wants it; a cap out of reach would leave the last of two equal doublings to
  their jitter.  That the wait grows needs no more memory than the wait itself: it
  is one that `Exponential` allows after so many failures, and the shortest one
  after one failure more is still no shorter, since two times 90 % exceed 110 %.
- *Runner.*  `DueInv`: from detection to report nobody was handed anything yet,
  and Telegram comes after the console.  `AgeInv` follows how old the last good
  poll may be at each place of the loop: the sum of what has passed and what is
  left of the current deadline is bounded there, and at the end of the longest
  way round (a request, a sink, a wait with 10 % of jitter, a request) it is at
  most 4.1 intervals, less than the five of `startAdminServer`, by
  `HTTPTimeout <= PollInterval`.  `UpInv` does the same for how long the API has
  been up: a request that is not clean was sent before it came back, a clean one
  succeeds, so the way leads through one of the former and one wait.  `TypeInv`
  says that in a request what has passed and what is left make the timeout.
- *CounterVec.*  `Holding`: whoever is about to increment holds the counter its
  label leads to.  Exactly this is lost when the second check is dropped.
  `ScrapeInv`: what is still unread is known and has not shrunk since the scrape
  began, because increments only add.
- *Store.*  `IDsFresh`: no two transactions have the same identifier, and none
  of an open transaction is committed; `TxWhole`: what is ready to be committed
  is whole.
- *Lifecycle.*  `LifeInv`: where `main` is says what is open.  `StopInv`: only an
  error of the admin server leads past the loop with another code than 0, and
  that has left `admin = "failed"` behind.
- *Exposition.*  `IInv` is `Types`, `Clocks`, `Deadlines` and `ProbeFresh`.
  `Clocks`: every timestamp that is kept is off from its moment by no more than
  the steps of the wall clock.  `Deadlines`: between the starts of two good polls
  lie a call, a report, a pause and another call, and each phase says how much of
  `Slack` may be used up.  `ProbeFresh` carries both to the moment of the verdict,
  for a probe that reads the timestamp before a good poll replaces it.
  `ScrapeInv` is about the scrape: `Order`, `Recording`, `Reading` and `Lag`.
  `Order` says that what is left to write, `todo`, is an end of the list of writes
  of this kind of poll, so that each series is written once (`WrittenOnce`), and
  an earlier one of the list is never left when a later one is written (`Ahead`).
  By `Recording` every series is the number of polls it is about, less the one
  write that may be left of it (`Left`); for the sum and the buckets that number is
  the size of a set (`Units`, `NoLonger`), which a poll adds its units to.
  `Reading` is the order of `WriteExposition`: the totals of the polls come before
  everything else.  `Lag`: what was read is at most what has been polled, and what
  is read later is at least what was read before, less one.
- *Configuration.*  `Loaded`: what the process has is what `Load` makes of its
  environment now.  `OneCorrection` is not obvious because a variable that cannot
  be read counts as 0 in the rules about the others, and because two rules are
  about two variables each: a timeout that is accepted next to an interval that is
  not must be accepted next to the default interval too (it is, since an interval
  is refused only if it is below 10 s, which is less than the default), and half a
  secret must name both halves.
- *Decoder and poll.*  `Polled`: the result that is kept is one that the decoder
  may make of the answer that is kept, and of nothing else.  The rest is about
  `lookup`: whatever order Go ranges over the fields in, it finds only values that
  the field has (`LookupIsValue`, for `NothingInvented` and `DriftIsSchema`), and
  the only one if there is only one and no twin hides it (`LookupSole`, for
  `EveryVehicleFound`).  An item is decoded from one order of its fields
  (`VehicleCases`), an object has at least one (`NormalFormExists`).  Whatever
  `Haversine` is, the distance from a place that is a NaN is a NaN, so that no such
  place is within any circle (`InsideIsNumber`).  With a radius of NaN there is
  nothing within it, and the theorems say nothing; that is for run RadiusInRange.
- *SecretSync.*  `IInv` is `Types`, `Revisions`, `OnePod` and `Announced`.
  `Revisions` puts the revision of the last rollout, `asked`, between the file and
  the Secret: a run records nothing newer than it has restarted the deployment
  for, and a container of the new revision has started after that.  `OnePod` is
  `Recreate`; `Announced` says that a program that has polled has an announced
  vehicle among the present, so that only a new one could announce it again, and
  a new one does not announce what it finds first.

Every invariant and every action property of the runs has its theorem.  Only
model-checked are the liveness properties, which are out of the prover's reach:
`Stops`, `Recovers`, `StayingIsSeen`, `EveryCallReturns`, `CallsReturn`,
`TerminatesOnSignal` and `SecretArrives`.

Two properties were restated to be provable, without saying less.  What a histogram
should show was a fold over the polls, about which a proof would need induction over
sequences; it is the cardinality of a set now, to which a poll adds.  The vehicles a
poll keeps were a filtered sequence; they are a function on their places now.  Two
others were found to claim too much when they came to be proved:
`EveryVehicleFound` and `DriftIsSchema` asked for one list in the root only, but a
number next to it, under another of its names or another casing of it, hides it
(section 5); they say so now, and the answers of MCPollContent have such roots.

## 5. Where the code and its documentation disagree

Each of the first two is shown by a run of its own.

1. **The doubling can still wrap** (`IntervalOverflow`).  The exponent is
   bounded by 20 to avoid a negative wait (`runner.go:275-278`), but the interval
   is not: from about 2 h 27 min on, the product is out of range, and on amd64 the
   wait is negative and a failing API is polled without pause.
2. **A radius may be no number** (`RadiusInRange`).  `FLEX_RADIUS_KM=NaN` passes
   both comparisons of `config.go:158`, whose message wants a radius in ]0, 50];
   no vehicle is ever within it.  The rectangle of the request is NaN too; what the
   API makes of that is not known here, an error or nothing.  Centres of NaN pass
   likewise.

Further ones, read off the code while modelling and not checked by a run:

- The cooldown runs from the announcement.  `config.go:39-40` speaks of a delay
  during which a signalled vehicle is not signalled again *after it has
  disappeared*, and `detect.go:33-35` of a guard against vehicles that flap at the
  edge.  `shouldAlert` measures from the last alert: a vehicle announced long ago
  that is missing from a single poll is announced again at once.
- The floor of 10 s is one of the configuration only.  `README.md:68` says the API
  is never polled faster; `nextDelay` follows a Retry-After of 1 s, and jitter
  takes 10 % off an interval of 10 s.
- A renamed list may go unnoticed.  `decode.go:12-17` promises a loud failure when no
  key matches; `firstArray` takes any array of the answer, in random order, and an
  empty one counts as an empty circle.
- Two names that differ by their casing only are merged at random
  (`normalizeObject`, `decode.go:47-49`), a null among them included, and `lookup`
  takes the first candidate key that is no null, whatever its value.  So a list of
  vehicles next to `"VEHICLES": null` may be overlooked, and one under `cars` is
  next to `"vehicles": 3`, which counts as a network failure (`decode.go:87-89`).
  `decode.go:35-36` promises a lookup that does not depend on the casing.
- `metrics.go:223-226`: a scrape reads `last_poll` before `last_success`, so that a
  good poll recorded in between makes the latter the newer of the two.
- `metrics.go:141`: `last_success` is 0 until the first good poll, which the rule
  that compares it with `time()` takes for a very old one; its `for: 2m` hides
  this when the program starts well.
- `runner.go:245`: `SaveSnapshot` has no deadline but the stop, while readiness is
  lost after five intervals; `ReadyWhileHealthy` is about programs without a
  database, and `ReportTime` of Exposition bounds it.
- `detect.go:32` says `lastAlerted` holds when a vehicle was signalled; the
  vehicles of the first poll are stamped too, and are cooling although nobody
  was told of them (`DetectorHistory` calls them `foundAt`).
- `detect.go:119`: `2 * realertAfter` wraps above 146 years, which `validate`
  accepts; `prune` then forgets everybody.  Likewise `client.go:187` for a
  Retry-After of 292 years.
- `runner.go:285`: with an interval above `maxBackoff`, a failing API is polled
  faster than a healthy one.
- `notify.go:72`: the console ignores `ctx`, against `notify.go:33`; a stdout that
  stalls blocks the loop past `notifyTimeout` and past SIGTERM.  With
  `StdoutStalls = TRUE`, `Persist = FALSE` and `Stops` as the only property in
  RunnerLive.cfg, TLC finds it violated.
- `decode.go:88`: a list of vehicles that became an object is counted as a
  network failure, against `runner.go:297-298`.
- `main.go:104-108`: an error of the admin server after the first 150 ms stays
  unread, and the loop runs on without `/metrics`, against `main.go:102-103`.

## 6. What is not modelled

- *Geometry*: floating-point trigonometry.  PollContent keeps of `DistanceKM` that
  equal places are at 0 and NaN anywhere is NaN, and leaves the rest, `Haversine`,
  to a constant; that the rectangle of `BBoxAround` contains the circle is not checked (at the
  antimeridian it is cut off there).
- *The text of the exposition* has no state; labels of the notification and store
  families are CounterVec's.
- *Text of notifications and labels of vehicles*: formatting.
- *Retry-After dates* read the wall clock; in Backoff the result may be any of a
  set of durations.
- *Restarts* forget the detector (by design, `README.md:83`).  SecretSync has them
  for one vehicle, and Lifecycle for the process; what arrived while the program
  was down is announced by nobody, and no property asks for it.
- *SecretSync* leaves out evictions and pods deleted by hand, a deployment that is
  applied anew, and a Secret somebody else writes.
- *Guarded apply, verification scripts, the remaining manifests, Terraform, Rego,
  alert rules, CI, the end-to-end bench*: declarative or sequential glue around
  external tools.

## 7. The plan

The order in which the modules were and will be written: what a user would miss
first comes first.

1. Done: Detector with its feed and its refinement; Backoff; Runner over the
   feed; CounterVec; Store; Decode; Lifecycle; Config, composed with Decode in
   PollContent; Exposition with both clocks; SecretSync with the deployment; their
   runs and the theorems of section 4.
2. Next: the restart of the whole program as a composition of Runner, Store and
   Lifecycle; the rectangle of `BBoxAround` in whole degrees.
3. Theorems to come: types of CounterVec, Store and Lifecycle by themselves; the
   refinements for which an abstract specification is still missing (one verdict for
   Exposition, one secret for SecretSync).
