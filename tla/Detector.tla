------------------------------ MODULE Detector ------------------------------
(***************************************************************************)
(* internal/watch/detect.go: the component that compares successive polls  *)
(* and decides which vehicles are worth a notification.  It keeps two      *)
(* memories: who was in the geofence at the last poll (present) and when   *)
(* each vehicle was last stamped by an alert decision (lastAlerted).       *)
(*                                                                         *)
(* A vehicle is its identifier.  An absolute clock stands for time.Now():  *)
(* Go's Sub uses the monotonic reading, so it never goes back.             *)
(***************************************************************************)
EXTENDS Integers, Sequences, FiniteSets

CONSTANTS
    Vehicle,       \* the identifiers of the fleet
    NoID,          \* the empty identifier, which Update skips
    Report,        \* the lists of identifiers a poll may hand to Update
    RealertAfter,  \* d.realertAfter; 0 means "never alert twice"
    MaxDuration,   \* the largest time.Duration, 2^63 - 1 in the code
    MaxClock       \* bound: the clock stops here

ASSUME IDAssumption == NoID \notin Vehicle
ASSUME ReportAssumption == Report \subseteq Seq(Vehicle \cup {NoID})
ASSUME DurationAssumption ==
    /\ RealertAfter \in Nat
    /\ MaxDuration \in Nat
    /\ MaxClock \in Nat
    /\ RealertAfter <= MaxDuration

VARIABLES
    clock,        \* time.Now()
    present,      \* d.present
    lastAlerted,  \* d.lastAlerted: identifier -> time of its last stamp
    started,      \* d.started
    diff          \* the Diff returned by the latest Update

vars == <<clock, present, lastAlerted, started, diff>>

-----------------------------------------------------------------------------

\* A signed 64-bit duration: the sum of two of them may wrap.
Wrapped(d) == IF d > MaxDuration THEN d - 2 * (MaxDuration + 1) ELSE d

\* Mutant: the `continue` on an empty identifier is missing.
IdentifiedUnfiltered(inFence) == {inFence[i] : i \in DOMAIN inFence}

\* The keys of `current`: duplicates collapse, the empty identifier is skipped.
Identified(inFence) == {inFence[i] : i \in DOMAIN inFence} \ {NoID}

\* Mutant: the memory of past alerts is not consulted.
shouldAlertForgetful(id) == id \notin present

\* Mutant: a cooldown that is just over still silences.
shouldAlertLate(id) ==
    /\ id \notin present
    /\ id \in DOMAIN lastAlerted =>
          /\ RealertAfter > 0
          /\ clock - lastAlerted[id] > RealertAfter

shouldAlert(id) ==
    /\ id \notin present
    /\ id \in DOMAIN lastAlerted =>
          /\ RealertAfter > 0
          /\ clock - lastAlerted[id] >= RealertAfter

\* lastAlerted after the loop: every appearing vehicle is stamped, also on
\* the first run, whose diff.New is then emptied.
Stamped(appearing) ==
    [id \in DOMAIN lastAlerted \cup appearing |->
        IF id \in appearing THEN clock ELSE lastAlerted[id]]

\* Mutant: prune is not called.
ExpiredNever(stamps, current) == {}

\* Mutant: prune keeps the stamps of the present vehicles only.
ExpiredAbsent(stamps, current) ==
    {id \in DOMAIN stamps \ current : RealertAfter > 0}

\* What prune deletes from `stamps`, given who is present.
Expired(stamps, current) ==
    {id \in DOMAIN stamps \ current :
        /\ RealertAfter > 0
        /\ clock - stamps[id] > Wrapped(2 * RealertAfter)}

Pruned(stamps, current) ==
    [id \in DOMAIN stamps \ Expired(stamps, current) |-> stamps[id]]

-----------------------------------------------------------------------------

Init ==
    /\ clock = 0
    /\ present = {}
    /\ lastAlerted = [id \in {} |-> 0]
    /\ started = FALSE
    /\ diff = [New |-> {}, Gone |-> {}, Present |-> 0, FirstRun |-> FALSE]

Update(inFence) ==
    LET current   == Identified(inFence)
        appearing == {id \in current : shouldAlert(id)}
    IN  /\ diff' = [New      |-> IF started THEN appearing ELSE {},
                    Gone     |-> present \ current,
                    Present  |-> Cardinality(current),
                    FirstRun |-> ~started]
        /\ present' = current
        /\ started' = TRUE
        /\ lastAlerted' = Pruned(Stamped(appearing), current)
        /\ UNCHANGED clock

\* Time passes between two calls.
Tick ==
    /\ clock < MaxClock
    /\ clock' = clock + 1
    /\ UNCHANGED <<present, lastAlerted, started, diff>>

Poll == \E inFence \in Report : Update(inFence)

Next == Tick \/ Poll

Spec == Init /\ [][Next]_vars

-----------------------------------------------------------------------------

DiffType ==
    [New : SUBSET Vehicle, Gone : SUBSET Vehicle, Present : Nat, FirstRun : BOOLEAN]

\* The variables have the shape detect.go declares: both memories hold only
\* real identifiers, and no stamp is in the future of the clock.
TypeOK ==
    /\ clock \in 0..MaxClock
    /\ present \in SUBSET Vehicle
    /\ DOMAIN lastAlerted \in SUBSET Vehicle
    /\ lastAlerted \in [DOMAIN lastAlerted -> 0..clock]
    /\ started \in BOOLEAN
    /\ diff \in DiffType
=============================================================================
