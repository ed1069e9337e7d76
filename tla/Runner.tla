------------------------------- MODULE Runner -------------------------------
(***************************************************************************)
(* internal/watch/runner.go: the loop poll -> detection -> persistence ->  *)
(* notification -> wait, with its two sinks (internal/notify), its metric  *)
(* of the last successful poll (internal/metrics) and its environment: the *)
(* API, the vehicles, the signal that stops the process.                   *)
(*                                                                         *)
(* The detector appears as the AppearanceFeed it is proved to implement    *)
(* (DetectorProofs).  One Tick is one unit of time; a step that waits for  *)
(* nothing takes no time.                                                  *)
(***************************************************************************)
EXTENDS Backoff, FiniteSets

CONSTANTS
    Vehicle,        \* the identifiers of the fleet
    RealertAfter,   \* params.RealertAfter
    Persist,        \* params.Persist
    Telegram,       \* is the Telegram sink configured
    HTTPTimeout,    \* timeout of both HTTP clients
    NotifyTimeout,  \* notifyTimeout, 15 s
    StdoutStalls    \* may a write to stdout block (a full pipe)

ASSUME RunnerAssumption ==
    /\ RealertAfter \in Nat
    /\ Persist \in BOOLEAN /\ Telegram \in BOOLEAN /\ StdoutStalls \in BOOLEAN
    /\ NotifyTimeout \in Nat

\* config.go refuses any other timeout.
ASSUME TimeoutAssumption ==
    HTTPTimeout \in Nat /\ HTTPTimeout > 0 /\ HTTPTimeout <= PollInterval

VARIABLES
    \* the program
    pc,         \* where Run is
    timer,      \* what is left of the deadline or of the wait at pc
    failures,   \* failures of Run; it saturates at MaxFailures
    cancelled,  \* ctx.Err() # nil: SIGTERM or SIGINT was received
    sink,       \* the sink Multi.Notify is serving
    pollAge,    \* time since the start of the current poll
    age,        \* time since lastSuccessAt, the start of the last good poll
    \* the detector, as its feed
    inFence, quiet, watching, announced, left,
    \* the environment
    up,         \* does the API answer
    clean,      \* has it answered ever since the current request was sent
    near,       \* the vehicles it reports within the circle
    \* history
    due,        \* sink -> announced vehicles it was not yet handed
    stayed,     \* vehicles of the last good poll that never left since
    upFor       \* for how long the API has been up without a good poll

Feed == INSTANCE AppearanceFeed

loop == <<pc, timer, failures, cancelled, sink, pollAge, age>>
feed == <<inFence, quiet, watching, announced, left>>
world == <<up, clean, near>>
history == <<due, stayed, upFor>>
vars == <<loop, feed, world, history>>

Never == -1

Sinks == IF Telegram THEN {"console", "telegram"} ELSE {"console"}

\* startAdminServer: ready while the last good poll is this young.
StaleAfter == 5 * PollInterval

Ready == age # Never /\ age <= StaleAfter

\* The longest time the API may be up before a poll succeeds: a request that
\* was sent too early and a full backoff, or a notification and a normal wait,
\* then the request that succeeds.
MaxRecovery ==
    HTTPTimeout
      + HTTPTimeout
      + (IF MaxBackoff > HTTPTimeout + (11 * PollInterval) \div 10
           THEN MaxBackoff ELSE HTTPTimeout + (11 * PollInterval) \div 10)

-----------------------------------------------------------------------------

Init ==
    /\ pc = "poll" /\ timer = 0 /\ failures = 0 /\ cancelled = FALSE
    /\ sink = "console" /\ pollAge = 0 /\ age = Never
    /\ Feed!FeedInit
    /\ up \in BOOLEAN /\ clean = FALSE /\ near \in SUBSET Vehicle
    /\ due = [s \in Sinks |-> {}] /\ stayed = {} /\ upFor = 0

\* Mutant: the duration of a poll is measured from the start of the program.
StartPollUndated ==
    /\ pc = "poll"
    /\ IF cancelled
         THEN pc' = "stopped" /\ UNCHANGED <<timer, clean>>
         ELSE pc' = "request" /\ timer' = HTTPTimeout /\ clean' = up
    /\ UNCHANGED <<pollAge, failures, cancelled, sink, age, feed, up, near, history>>

\* Poll, up to the request.  With a cancelled ctx the HTTP client sends
\* nothing, and Run returns on the error.
StartPoll ==
    /\ pc = "poll"
    /\ IF cancelled
         THEN /\ pc' = "stopped"
              /\ UNCHANGED <<timer, pollAge, clean>>
         ELSE /\ pc' = "request"
              /\ timer' = HTTPTimeout
              /\ pollAge' = 0
              /\ clean' = up
    /\ UNCHANGED <<failures, cancelled, sink, age, feed, up, near, history>>

\* Mutant: the detector is handed only the vehicles it does not know yet.
PollSucceedsNewOnly ==
    /\ pc = "request"
    /\ up
    /\ Feed!Observe(near \ inFence)
    /\ age' = pollAge
    /\ pc' = IF Persist THEN "persist" ELSE "report"
    /\ due' = [s \in Sinks |-> announced']
    /\ stayed' = near
    /\ upFor' = 0
    /\ UNCHANGED <<timer, failures, cancelled, sink, pollAge, world>>

\* A good answer: det.Update, ObservePollSuccess (dated by the start of the
\* poll), then persist if it is on.
PollSucceeds ==
    /\ pc = "request"
    /\ up
    /\ Feed!Observe(near)
    /\ age' = pollAge
    /\ pc' = IF Persist THEN "persist" ELSE "report"
    /\ due' = [s \in Sinks |-> announced']
    /\ stayed' = near
    /\ upFor' = 0
    /\ UNCHANGED <<timer, failures, cancelled, sink, pollAge, world>>

\* Mutant: a failed poll is handed to the detector as an empty circle.
PollFailsEmpty(a) ==
    /\ pc = "request"
    /\ ~clean \/ cancelled
    /\ Feed!Observe({})
    /\ IF cancelled
         THEN pc' = "stopped" /\ UNCHANGED <<failures, timer>>
         ELSE /\ pc' = "wait"
              /\ failures' = Smaller(failures + 1, MaxFailures)
              /\ timer' \in nextDelay(failures', parseRetryAfter(a))
    /\ UNCHANGED <<cancelled, sink, pollAge, age, world, history>>

\* Mutant: Run gives up after MaxFailures failures.
PollFailsForGood(a) ==
    /\ pc = "request"
    /\ ~clean \/ cancelled
    /\ IF cancelled \/ failures + 1 = MaxFailures
         THEN pc' = "stopped" /\ UNCHANGED <<failures, timer>>
         ELSE /\ pc' = "wait"
              /\ failures' = failures + 1
              /\ timer' \in nextDelay(failures', parseRetryAfter(a))
    /\ UNCHANGED <<cancelled, sink, pollAge, age, feed, world, history>>

\* A timeout, an error status or an unusable body; or the stop aborted the
\* request.  The detector is not touched.
PollFails(a) ==
    /\ pc = "request"
    /\ ~clean \/ cancelled
    /\ IF cancelled
         THEN /\ pc' = "stopped"
              /\ UNCHANGED <<failures, timer>>
         ELSE /\ pc' = "wait"
              /\ failures' = Smaller(failures + 1, MaxFailures)
              /\ timer' \in nextDelay(failures', parseRetryAfter(a))
    /\ UNCHANGED <<cancelled, sink, pollAge, age, feed, world, history>>

\* Mutant: SaveSnapshot is not bound to ctx; a database that hangs outlives the
\* stop.
PersistedUnbound ==
    /\ pc = "persist"
    /\ ~cancelled
    /\ pc' = "report"
    /\ UNCHANGED <<timer, failures, cancelled, sink, pollAge, age, feed, world, history>>

\* SaveSnapshot returned; its error is counted and logged only.
Persisted ==
    /\ pc = "persist"
    /\ pc' = "report"
    /\ UNCHANGED <<timer, failures, cancelled, sink, pollAge, age, feed, world, history>>

\* The default branch of Run: report.  Nothing to announce (always so on the
\* first run) leads straight to the wait.
Report ==
    /\ pc = "report"
    /\ failures' = 0
    /\ IF announced = {}
         THEN /\ pc' = "wait"
              /\ timer' \in nextDelay(0, 0)
              /\ UNCHANGED sink
         ELSE /\ pc' = "sink"
              /\ sink' = "console"
              /\ timer' = NotifyTimeout
    /\ UNCHANGED <<cancelled, pollAge, age, feed, world, history>>

\* Mutant: Multi.Notify returns at the first sink that fails.
SinkReturnsFirst ==
    /\ pc = "sink"
    /\ due' = [due EXCEPT ![sink] = {}]
    /\ \/ sink = "console" /\ Telegram
          /\ sink' = "telegram"
          /\ timer' = Smaller(timer, HTTPTimeout)
          /\ UNCHANGED pc
       \/ pc' = "wait"
          /\ timer' \in nextDelay(0, 0)
          /\ UNCHANGED sink
    /\ UNCHANGED <<failures, cancelled, pollAge, age, feed, world, stayed, upFor>>

\* One sink of Multi.Notify returned, with or without an error: the next one
\* is served all the same.  Telegram has the timeout of its HTTP client too.
SinkReturns ==
    /\ pc = "sink"
    /\ due' = [due EXCEPT ![sink] = {}]
    /\ IF sink = "console" /\ Telegram
         THEN /\ sink' = "telegram"
              /\ timer' = Smaller(timer, HTTPTimeout)
              /\ UNCHANGED pc
         ELSE /\ pc' = "wait"
              /\ timer' \in nextDelay(0, 0)
              /\ UNCHANGED sink
    /\ UNCHANGED <<failures, cancelled, pollAge, age, feed, world, stayed, upFor>>

\* The select of Run.  When both channels are ready, either case is taken.
WaitEnds ==
    /\ pc = "wait"
    /\ \/ cancelled /\ pc' = "stopped"
       \/ timer <= 0 /\ pc' = "poll"
    /\ UNCHANGED <<timer, failures, cancelled, sink, pollAge, age, feed, world, history>>

-----------------------------------------------------------------------------
(* Time and the environment.                                               *)

\* Mutant: the notification has no deadline.
WaitingUnbounded ==
    \/ pc \in {"request", "wait"} /\ timer > 0 /\ ~cancelled
    \/ pc = "persist" /\ ~cancelled
    \/ pc = "sink" /\ sink = "telegram" /\ ~cancelled
    \/ pc = "sink" /\ sink = "console" /\ StdoutStalls

\* Does Run wait?  Every wait but the write to stdout ends with the ctx; a
\* database has no deadline.
Waiting ==
    \/ pc \in {"request", "wait"} /\ timer > 0 /\ ~cancelled
    \/ pc = "persist" /\ ~cancelled
    \/ pc = "sink" /\ sink = "telegram" /\ timer > 0 /\ ~cancelled
    \/ pc = "sink" /\ sink = "console" /\ StdoutStalls

Tick ==
    /\ Waiting
    /\ timer' = IF timer > 0 THEN timer - 1 ELSE timer
    /\ pollAge' = IF pc = "request" THEN pollAge + 1 ELSE pollAge
    /\ age' = IF age = Never THEN Never ELSE Smaller(age + 1, StaleAfter + 1)
    /\ upFor' = IF up THEN Smaller(upFor + 1, MaxRecovery + 1) ELSE 0
    /\ Feed!Elapse(1)
    /\ UNCHANGED <<pc, failures, cancelled, sink, world, due, stayed>>

Cancel ==
    /\ ~cancelled
    /\ cancelled' = TRUE
    /\ UNCHANGED <<pc, timer, failures, sink, pollAge, age, feed, world, history>>

APIFails ==
    /\ up
    /\ up' = FALSE
    /\ clean' = FALSE
    /\ upFor' = 0
    /\ UNCHANGED <<loop, feed, near, due, stayed>>

APIRecovers ==
    /\ ~up
    /\ up' = TRUE
    /\ UNCHANGED <<loop, feed, clean, near, history>>

\* Vehicles drive in and out, or seem to.
VehiclesMove ==
    /\ near' \in SUBSET Vehicle \ {near}
    /\ stayed' = stayed \cap near'
    /\ UNCHANGED <<loop, feed, up, clean, due, upFor>>

Step ==
    \/ StartPoll
    \/ PollSucceeds
    \/ \E a \in Asked : PollFails(a)
    \/ Report
    \/ SinkReturns
    \/ WaitEnds

Next ==
    \/ Step
    \/ Persisted
    \/ Tick
    \/ Cancel
    \/ APIFails
    \/ APIRecovers
    \/ VehiclesMove

Spec == Init /\ [][Next]_vars

\* The goroutine of Run is scheduled and time passes.  A database is only
\* sure to return once the ctx is cancelled, and the console sink only when
\* stdout does not stall.
Fairness ==
    /\ WF_vars(StartPoll) /\ WF_vars(PollSucceeds) /\ WF_vars(Report) /\ WF_vars(WaitEnds)
    /\ WF_vars(\E a \in Asked : PollFails(a))
    /\ WF_vars((sink = "telegram" \/ ~StdoutStalls) /\ SinkReturns)
    /\ WF_vars(cancelled /\ Persisted)
    /\ WF_vars(Tick)

FairSpec == Spec /\ Fairness

-----------------------------------------------------------------------------

\* The variables keep their types: every deadline is within the bounds the
\* code gives it.
TypeOK ==
    /\ pc \in {"poll", "request", "persist", "report", "sink", "wait", "stopped"}
    /\ timer \in Int
    /\ failures \in 0..MaxFailures
    /\ cancelled \in BOOLEAN /\ up \in BOOLEAN /\ clean \in BOOLEAN
    /\ sink \in Sinks
    /\ pollAge \in 0..HTTPTimeout
    /\ age \in {Never} \cup 0..(StaleAfter + 1)
    /\ inFence \in SUBSET Vehicle /\ announced \in SUBSET Vehicle /\ left \in SUBSET Vehicle
    /\ quiet \in [Vehicle -> {Feed!Forever} \cup 0..RealertAfter]
    /\ watching \in BOOLEAN
    /\ near \in SUBSET Vehicle /\ stayed \in SUBSET Vehicle
    /\ due \in [Sinks -> SUBSET Vehicle]
    /\ upFor \in 0..(MaxRecovery + 1)

\* Nothing detected is dropped on the way to the sinks: before the next poll,
\* and before Run returns, every sink was handed every announced vehicle,
\* whatever the database, the other sink and the stop signal did in between
\* (persist, report, Multi.Notify).
NothingDropped ==
    pc \in {"poll", "request", "wait", "stopped"} => \A s \in Sinks : due[s] = {}

\* An outage is not a departure: a vehicle that never left the circle since
\* the last good poll is not announced when the API is back, however many
\* polls failed (Poll returns before det.Update).
StayingIsSilent ==
    [][PollSucceeds => announced' \cap stayed = {}]_vars

\* /readyz does not flap: until a poll fails, the program stays ready between
\* two good polls, however slow the API and Telegram are, provided nothing
\* waits without a deadline (the factor 5 of startAdminServer).
ReadyWhileHealthy ==
    age # Never /\ failures = 0 /\ pc # "stopped" => Ready

\* maxBackoff is short enough to "restart quickly at recovery": a poll
\* succeeds within MaxRecovery of the return of the API, unless the program is
\* stopped.
PromptRecovery == pc # "stopped" => upFor <= MaxRecovery

\* SIGTERM always ends Run, wherever it is, although the select may prefer an
\* expired wait to ctx.Done and go round once more (Run, and every call it hands
\* the ctx to).
Stops == cancelled ~> pc = "stopped"

\* The premises of the two properties below: nobody stops the program, and the
\* database, if there is one, answers in the end.
Undisturbed == []~cancelled /\ []<>(pc # "persist")

\* Whatever failed before, once the API stays up polls succeed again and
\* again: only a signal ends the loop, no number of failures does.
Recovers == <>[]up /\ Undisturbed => []<>(pc = "report")

\* A vehicle that stays in the circle of an API that answers is found, and from
\* then on never taken for gone.
StayingIsSeen ==
    \A v \in Vehicle :
        <>[](up /\ v \in near) /\ Undisturbed => <>[](v \in inFence)
=============================================================================
