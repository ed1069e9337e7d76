----------------------------- MODULE Lifecycle -----------------------------
(***************************************************************************)
(* cmd/flexwatch/main.go: the life of one process, from the configuration  *)
(* to its exit code: the main goroutine with its deferred calls, the admin *)
(* server in its goroutine (internal/metrics/server.go), the signals, and  *)
(* the supervisor that starts the program again.                           *)
(*                                                                         *)
(* The loop appears only as something that uses the store and returns when *)
(* the ctx is cancelled (Runner, Store).  Time has no clock here: a timer  *)
(* may expire at any moment after it was set.                              *)
(***************************************************************************)
EXTENDS Naturals

CONSTANTS
    MaxSignals,  \* bound: SIGTERM and SIGINT to one process
    MaxScrapes   \* bound: requests the admin server handles at a time

ASSUME LifecycleAssumption == MaxSignals \in Nat /\ MaxScrapes \in Nat

VARIABLES
    pc,         \* where main is
    once,       \* the flag -once
    enabled,    \* cfg.StoreEnabled
    code,       \* what run has returned, later the exit code
    caught,     \* are signals caught by NotifyContext
    cancelled,  \* ctx.Err() # nil
    signals,    \* the signals received so far
    store,      \* the store: "none", "open" or "closed"
    saving,     \* is the loop inside SaveSnapshot
    admin,      \* the goroutine of the admin server
    errs,       \* the buffered channel of startAdminServer, 0 or 1 errors
    shut,       \* was srv.Shutdown called
    scrapes     \* requests in flight

main == <<pc, once, enabled, code>>
sig == <<caught, cancelled, signals>>
use == <<store, saving>>
server == <<admin, errs, shut, scrapes>>
vars == <<main, sig, use, server>>

Ok == 0
Failure == 1
Killed == 2
Running == 3

-----------------------------------------------------------------------------

\* A new process.
Init ==
    /\ pc = "load" /\ once \in BOOLEAN /\ enabled \in BOOLEAN /\ code = Running
    /\ caught = FALSE /\ cancelled = FALSE /\ signals = 0
    /\ store = "none" /\ saving = FALSE
    /\ admin = "none" /\ errs = 0 /\ shut = FALSE /\ scrapes = 0

\* config.Load; a bad configuration ends the program before anything exists.
Load ==
    /\ pc = "load"
    /\ \/ pc' = "signals" /\ UNCHANGED code
       \/ pc' = "exit" /\ code' = Failure
    /\ UNCHANGED <<once, enabled, sig, use, server>>

\* signal.NotifyContext.
CatchSignals ==
    /\ pc = "signals"
    /\ caught' = TRUE
    /\ pc' = "open"
    /\ UNCHANGED <<once, enabled, code, cancelled, signals, use, server>>

\* openStore: Noop when the store is off.  A binary without the driver, an
\* unreachable database or a cancelled ctx are errors.
OpenStore ==
    /\ pc = "open"
    /\ \/ /\ ~enabled \/ ~cancelled
          /\ store' = IF enabled THEN "open" ELSE store
          /\ pc' = IF once THEN "once" ELSE "serve"
          /\ UNCHANGED code
       \/ enabled /\ pc' = "stop" /\ code' = Failure /\ UNCHANGED store
    /\ UNCHANGED <<once, enabled, sig, saving, server>>

\* The loop, or the single poll of -once, saves a snapshot.
StartSave ==
    /\ pc \in {"once", "run"}
    /\ enabled
    /\ ~saving
    /\ saving' = TRUE
    /\ UNCHANGED <<main, sig, store, server>>

EndSave ==
    /\ saving
    /\ saving' = FALSE
    /\ UNCHANGED <<main, sig, store, server>>

\* runOnce returns after its poll; a stop makes the poll fail.
OnceReturns ==
    /\ pc = "once"
    /\ ~saving
    /\ pc' = "close"
    /\ code' \in {Ok, Failure}
    /\ UNCHANGED <<once, enabled, sig, use, server>>

\* startAdminServer: the goroutine exists, but it may run much later.
StartAdminServer ==
    /\ pc = "serve"
    /\ admin' = "starting"
    /\ pc' = "grace"
    /\ UNCHANGED <<once, enabled, code, sig, use, errs, shut, scrapes>>

\* The select after it: an error of the server, or 150 ms.
GraceEnds ==
    /\ pc = "grace"
    /\ \/ errs = 1 /\ errs' = 0 /\ pc' = "shutdown" /\ code' = Failure
       \/ pc' = "run" /\ UNCHANGED <<errs, code>>
    /\ UNCHANGED <<once, enabled, sig, use, admin, shut, scrapes>>

\* Mutant: Run hands the error of its ctx on.
RunReturnsError ==
    /\ pc = "run"
    /\ cancelled
    /\ ~saving
    /\ pc' = "shutdown"
    /\ code' = Failure
    /\ UNCHANGED <<once, enabled, sig, use, server>>

\* Mutant: Run is a goroutine that nobody waits for.
RunReturnsEarly ==
    /\ pc = "run"
    /\ cancelled
    /\ pc' = "shutdown"
    /\ code' = Ok
    /\ UNCHANGED <<once, enabled, sig, use, server>>

\* Mutant: the first signal gives the signals their default effect back, so that
\* a second one kills at once.
RunReturnsUncaught ==
    /\ pc = "run"
    /\ cancelled
    /\ ~saving
    /\ pc' = "shutdown"
    /\ code' = Ok
    /\ caught' = FALSE
    /\ UNCHANGED <<once, enabled, cancelled, signals, use, server>>

\* runner.Run returns nil, and only because of the ctx.
RunReturns ==
    /\ pc = "run"
    /\ cancelled
    /\ ~saving
    /\ pc' = "shutdown"
    /\ code' = Ok
    /\ UNCHANGED <<once, enabled, sig, use, server>>

\* The deferred metrics.Shutdown: no new connection from here on.
Shutdown ==
    /\ pc = "shutdown"
    /\ shut' = TRUE
    /\ admin' = IF admin = "listening" THEN "closed" ELSE admin
    /\ pc' = "drain"
    /\ UNCHANGED <<once, enabled, code, sig, use, errs, scrapes>>

\* Mutant: Shutdown has no deadline.
DrainFully ==
    /\ pc = "drain"
    /\ scrapes = 0
    /\ pc' = "close"
    /\ UNCHANGED <<once, enabled, code, sig, use, server>>

\* It returns when the requests are served, or after shutdownGrace.
Drain ==
    /\ pc = "drain"
    /\ pc' = "close"
    /\ UNCHANGED <<once, enabled, code, sig, use, server>>

\* The deferred closeStore.
CloseStore ==
    /\ pc = "close"
    /\ store' = IF store = "open" THEN "closed" ELSE store
    /\ pc' = "stop"
    /\ UNCHANGED <<once, enabled, code, sig, saving, server>>

\* The deferred stop: signals have their default effect again.
StopSignals ==
    /\ pc = "stop"
    /\ caught' = FALSE
    /\ pc' = "exit"
    /\ UNCHANGED <<once, enabled, code, cancelled, signals, use, server>>

\* main returns, or calls os.Exit(1).
Exit ==
    /\ pc = "exit"
    /\ pc' = "exited"
    /\ UNCHANGED <<once, enabled, code, sig, use, server>>

-----------------------------------------------------------------------------
(* The goroutine of the admin server, and its clients.                     *)

\* srv.ListenAndServe.
Listen ==
    /\ admin = "starting"
    /\ pc # "exited"
    /\ \/ shut /\ admin' = "closed" /\ UNCHANGED errs
       \/ ~shut /\ admin' = "listening" /\ UNCHANGED errs
       \/ ~shut /\ admin' = "failed" /\ errs' = 1
    /\ UNCHANGED <<main, sig, use, shut, scrapes>>

Request ==
    /\ admin = "listening"
    /\ pc # "exited"
    /\ scrapes < MaxScrapes
    /\ scrapes' = scrapes + 1
    /\ UNCHANGED <<main, sig, use, admin, errs, shut>>

Answer ==
    /\ scrapes > 0
    /\ pc # "exited"
    /\ scrapes' = scrapes - 1
    /\ UNCHANGED <<main, sig, use, admin, errs, shut>>

-----------------------------------------------------------------------------
(* Outside.                                                                *)

\* SIGTERM or SIGINT.
Signal ==
    /\ pc # "exited"
    /\ signals < MaxSignals
    /\ signals' = signals + 1
    /\ IF caught
         THEN cancelled' = TRUE /\ UNCHANGED <<pc, code>>
         ELSE pc' = "exited" /\ code' = Killed /\ UNCHANGED cancelled
    /\ UNCHANGED <<once, enabled, caught, use, server>>

\* The supervisor starts a new process.
Restart ==
    /\ pc = "exited"
    /\ pc' = "load" /\ once' \in BOOLEAN /\ enabled' \in BOOLEAN /\ code' = Running
    /\ caught' = FALSE /\ cancelled' = FALSE /\ signals' = 0
    /\ store' = "none" /\ saving' = FALSE
    /\ admin' = "none" /\ errs' = 0 /\ shut' = FALSE /\ scrapes' = 0

Main ==
    \/ Load \/ CatchSignals \/ OpenStore \/ OnceReturns
    \/ StartAdminServer \/ GraceEnds \/ RunReturns
    \/ Shutdown \/ Drain \/ CloseStore \/ StopSignals \/ Exit

Next ==
    \/ Main
    \/ StartSave \/ EndSave
    \/ Listen \/ Request \/ Answer
    \/ Signal \/ Restart

Spec == Init /\ [][Next]_vars

\* The main goroutine is scheduled, and SaveSnapshot ends (Store).  Nothing is
\* assumed of the admin goroutine and its clients.
FairSpec == Spec /\ WF_vars(Main) /\ SF_vars(RunReturns \/ OnceReturns) /\ WF_vars(EndSave)

-----------------------------------------------------------------------------

\* No snapshot is written to a store that is not open or no longer so,
\* whenever the stop comes (the order of run's deferred calls).
SavesToOpenStore == saving => store = "open"

\* Whatever the way out, nothing is left open: the store is closed and the admin
\* server takes no more requests, also when a further signal kills the process,
\* because signals are caught until all that is done (the deferred stop is the
\* first to be deferred, and the last to run).
LeavesNothingOpen == pc = "exited" => store # "open" /\ ~saving /\ admin # "listening"

\* A stop is not a failure: a process that reached its loop and got one signal
\* exits with 0, even if the signal came before the loop did.
StopIsNoFailure ==
    pc = "exited" /\ signals = 1 /\ ~once /\ shut /\ admin # "failed" => code = Ok

\* SIGTERM ends the process, whatever the clients of the admin server do.
TerminatesOnSignal == signals > 0 ~> pc = "exited"
=============================================================================
