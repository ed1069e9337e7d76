--------------------------- MODULE AppearanceFeed ---------------------------
(***************************************************************************)
(* What the detector promises, without its memory of time stamps.          *)
(*                                                                         *)
(* Every vehicle has a period of silence.  A poll that finds a vehicle     *)
(* which was absent from the previous poll announces it when its silence   *)
(* is over, and starts a new period; the very first poll starts the        *)
(* periods but announces nothing.  No other vehicle is announced, none is  *)
(* omitted, and nothing about the past other than the remaining silence    *)
(* is remembered.                                                          *)
(***************************************************************************)
EXTENDS Integers

CONSTANTS
    Vehicle,      \* the identifiers of the fleet
    RealertAfter  \* the length of a period of silence, in Nat; 0 means without end

VARIABLES
    inFence,   \* the vehicles of the latest poll
    quiet,     \* vehicle -> what is left of its silence
    watching,  \* has there been a poll
    announced, \* the vehicles announced by the latest poll
    left       \* the vehicles the latest poll no longer found

feed == <<inFence, quiet, watching, announced, left>>

\* A silence without end: it is not 0 and time does not shorten it.
Forever == -1

Silence == IF RealertAfter = 0 THEN Forever ELSE RealertAfter

FeedInit ==
    /\ inFence = {}
    /\ quiet = [v \in Vehicle |-> 0]
    /\ watching = FALSE
    /\ announced = {}
    /\ left = {}

\* The vehicles of `current` that count as appearances.
Appearances(current) == {v \in current \ inFence : quiet[v] = 0}

Observe(current) ==
    /\ announced' = IF watching THEN Appearances(current) ELSE {}
    /\ left' = inFence \ current
    /\ quiet' = [v \in Vehicle |-> IF v \in Appearances(current) THEN Silence ELSE quiet[v]]
    /\ inFence' = current
    /\ watching' = TRUE

\* A silence `q` after `d` more units of time.
After(q, d) == IF q > d THEN q - d ELSE IF q = Forever THEN q ELSE 0

Elapse(d) ==
    /\ quiet' = [v \in Vehicle |-> After(quiet[v], d)]
    /\ UNCHANGED <<inFence, watching, announced, left>>

FeedNext ==
    \/ \E current \in SUBSET Vehicle : Observe(current)
    \/ Elapse(1)

FeedSpec == FeedInit /\ [][FeedNext]_feed
=============================================================================
