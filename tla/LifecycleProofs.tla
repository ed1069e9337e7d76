-------------------------- MODULE LifecycleProofs --------------------------
(***************************************************************************)
(* The order of main's deferred calls is right, for any number of signals  *)
(* and requests.                                                           *)
(***************************************************************************)
EXTENDS Lifecycle, TLAPS

Before == {"load", "signals", "open"}
Using == {"once", "serve", "grace", "run", "shutdown", "drain", "close"}
Done == {"stop", "exit", "exited"}

\* Where main is says what is open.  The store is open from openStore to the
\* deferred closeStore, the loop uses it only in between, and the server is
\* either not started or shut once main is past the deferred Shutdown.
LifeInv ==
    /\ pc \in Before \cup Using \cup Done
    /\ caught <=> pc \in {"open", "stop"} \cup Using
    /\ saving => enabled /\ pc \in {"once", "run"}
    /\ pc \in Before => store = "none"
    /\ pc \in Using => (enabled <=> store = "open")
    /\ pc \in Done => store # "open"
    /\ pc \in Before \cup {"once", "serve"} => admin = "none"
    /\ admin = "listening" => ~shut
    /\ pc = "drain" => shut
    /\ pc \in {"close"} \cup Done => shut \/ admin = "none"

\* Every process starts with it.
LEMMA InitLife == Init => LifeInv
  BY DEF Init, LifeInv, Before, Using, Done

\* Every step keeps it.  What matters: a signal kills only where nothing is
\* open, and RunReturns and OnceReturns wait for the snapshot being saved.
LEMMA StepLife == LifeInv /\ [Next]_vars => LifeInv'
  <1> SUFFICES ASSUME LifeInv, [Next]_vars PROVE LifeInv'
    OBVIOUS
  <1> USE DEF LifeInv, Before, Using, Done, main, sig, use, server
  <1>1. CASE Load \/ CatchSignals
    BY <1>1 DEF Load, CatchSignals
  <1>2. CASE OpenStore
    BY <1>2 DEF OpenStore
  <1>3. CASE OnceReturns
    BY <1>3 DEF OnceReturns
  <1>4. CASE StartAdminServer \/ GraceEnds
    BY <1>4 DEF StartAdminServer, GraceEnds
  <1>5. CASE RunReturns
    BY <1>5 DEF RunReturns
  <1>6. CASE Shutdown \/ Drain
    BY <1>6 DEF Shutdown, Drain
  <1>7. CASE CloseStore
    BY <1>7 DEF CloseStore
  <1>8. CASE StopSignals \/ Exit
    BY <1>8 DEF StopSignals, Exit
  <1>9. CASE StartSave \/ EndSave
    BY <1>9 DEF StartSave, EndSave
  <1>10. CASE Listen
    BY <1>10 DEF Listen
  <1>11. CASE Request \/ Answer
    BY <1>11 DEF Request, Answer
  <1>12. CASE Signal
    BY <1>12 DEF Signal
  <1>13. CASE Restart
    BY <1>13 DEF Restart
  <1>14. CASE UNCHANGED vars
    BY <1>14 DEF vars
  <1> QED
    BY <1>1, <1>2, <1>3, <1>4, <1>5, <1>6, <1>7, <1>8, <1>9, <1>10, <1>11, <1>12, <1>13,
       <1>14 DEF Next, Main

\* SavesToOpenStore: the store outlives its last use, on every way out of run.
THEOREM SavesTheorem == Spec => []SavesToOpenStore
  <1>1. LifeInv => SavesToOpenStore
    BY DEF LifeInv, SavesToOpenStore, Using
  <1> QED
    BY InitLife, StepLife, <1>1, PTL DEF Spec

\* LeavesNothingOpen: store and server are closed when the process ends, be it by
\* a signal.
THEOREM LeavesTheorem == Spec => []LeavesNothingOpen
  <1>1. LifeInv => LeavesNothingOpen
    BY DEF LifeInv, LeavesNothingOpen, Done
  <1> QED
    BY InitLife, StepLife, <1>1, PTL DEF Spec

-----------------------------------------------------------------------------
(* A stop is not a failure.                                                *)

\* Main is past the loop, or past the error of the server that replaced it.
Stopping == pc = "shutdown" \/ shut

\* Run has returned because of the ctx, and what it returned stays, unless a
\* second signal kills the process.
Stopped ==
    cancelled /\ (code = Ok \/ (pc = "exited" /\ code = Killed /\ signals >= 2))

StopInv ==
    /\ signals \in Nat
    /\ cancelled => signals >= 1
    /\ errs \in {0, 1} /\ (errs = 1 => admin = "failed")
    /\ shut => pc \in {"drain", "close"} \cup Done
    /\ Stopping => admin = "failed" \/ Stopped

LEMMA InitStop == Init => StopInv
  BY DEF Init, StopInv, Stopping, Stopped, Done

\* Every step keeps it.  What matters: only an error of the server leads past
\* the loop without a signal, and then the server has failed for good.
LEMMA StepStop == LifeInv /\ StopInv /\ [Next]_vars => StopInv'
  <1> SUFFICES ASSUME LifeInv, StopInv, [Next]_vars PROVE StopInv'
    OBVIOUS
  <1> USE DEF StopInv, Stopping, Stopped, Done, main, sig, use, server
  <1>1. CASE Load \/ CatchSignals \/ OpenStore \/ OnceReturns
    BY <1>1 DEF Load, CatchSignals, OpenStore, OnceReturns
  <1>2. CASE StartAdminServer \/ GraceEnds
    <2>1. pc = "serve" => admin = "none"
      BY DEF LifeInv
    <2> QED
      BY <1>2, <2>1 DEF StartAdminServer, GraceEnds
  <1>3. CASE RunReturns
    BY <1>3 DEF RunReturns
  <1>4. CASE Shutdown \/ Drain \/ CloseStore
    BY <1>4 DEF Shutdown, Drain, CloseStore
  <1>5. CASE StopSignals \/ Exit
    BY <1>5 DEF StopSignals, Exit
  <1>6. CASE StartSave \/ EndSave
    BY <1>6 DEF StartSave, EndSave
  <1>7. CASE Listen
    BY <1>7 DEF Listen
  <1>8. CASE Request \/ Answer
    BY <1>8 DEF Request, Answer
  <1>9. CASE Signal
    <2>1. signals' \in Nat /\ signals' >= 1 /\ (cancelled => signals' >= 2)
      BY <1>9 DEF Signal
    <2>2. CASE caught
      BY <1>9, <2>1, <2>2 DEF Signal
    <2>3. CASE ~caught
      BY <1>9, <2>1, <2>3 DEF Signal
    <2> QED
      BY <2>2, <2>3
  <1>10. CASE Restart
    BY <1>10 DEF Restart
  <1>11. CASE UNCHANGED vars
    BY <1>11 DEF vars
  <1> QED
    BY <1>1, <1>2, <1>3, <1>4, <1>5, <1>6, <1>7, <1>8, <1>9, <1>10, <1>11 DEF Next, Main

\* StopIsNoFailure: whenever the one signal comes, a process whose server did
\* not fail and that reached its loop exits with 0 (run, RunReturns).
THEOREM StopTheorem == Spec => []StopIsNoFailure
  <1>1. StopInv => StopIsNoFailure
    BY DEF StopInv, StopIsNoFailure, Stopping, Stopped
  <1> QED
    BY InitLife, StepLife, InitStop, StepStop, <1>1, PTL DEF Spec
=============================================================================
