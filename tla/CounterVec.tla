----------------------------- MODULE CounterVec -----------------------------
(***************************************************************************)
(* internal/metrics/metrics.go: counterVec, a family of counters created   *)
(* on first use.  With looks the label up under the read lock and, when it *)
(* is missing, again under the write lock; the increment itself happens    *)
(* outside both.  A scrape (writeCounterVec) reads all counters one by one *)
(* under the read lock.                                                    *)
(*                                                                         *)
(* Today the loop's goroutine is the only one that calls With, while       *)
(* scrapes run beside it; With is written for any number of callers, and   *)
(* so is this.                                                             *)
(*                                                                         *)
(* A critical section in which a goroutine does one thing is one step; the *)
(* read lock of a scrape, which spans several, is the variable `unread`.   *)
(***************************************************************************)
EXTENDS Naturals, Sequences

CONSTANTS
    Caller,    \* the goroutines that call With(l).Inc()
    Label,     \* the values of the label
    NoCounter, \* nil
    MaxIncs    \* bound: a caller makes this many increments

ASSUME CallerAssumption == NoCounter \notin Nat /\ MaxIncs \in Nat

VARIABLES
    heap,      \* the Counters allocated so far, by address
    children,  \* cv.children: label -> address of its Counter
    pc,        \* caller -> where it is in With(l).Inc()
    label,     \* caller -> the argument of its With
    c,         \* caller -> the *Counter its With found or made
    calls,     \* caller -> the increments it has started
    scraping,  \* is a scrape inside its critical section
    unread,    \* the labels it has still to read
    values,    \* label -> what the latest scrape read
    \* history
    incs,      \* label -> completed increments
    atStart    \* label -> incs when the latest scrape started

callers == <<heap, children, pc, label, c, calls, incs>>
scrape == <<scraping, unread, values, atStart>>
vars == <<callers, scrape>>

Known == DOMAIN children

Allocated == DOMAIN heap

-----------------------------------------------------------------------------

Init ==
    /\ heap = << >>
    /\ children = [l \in {} |-> 0]
    /\ pc = [g \in Caller |-> "idle"]
    /\ label \in [Caller -> Label]
    /\ c = [g \in Caller |-> NoCounter]
    /\ calls = [g \in Caller |-> 0]
    /\ scraping = FALSE /\ unread = {}
    /\ values = [l \in {} |-> 0]
    /\ incs = [l \in Label |-> 0]
    /\ atStart = [l \in Label |-> 0]

\* The optimistic read under RLock.  Readers do not exclude each other, and a
\* writer's section is a single step.
Lookup(g, l) ==
    /\ pc[g] = "idle"
    /\ calls[g] < MaxIncs
    /\ calls' = [calls EXCEPT ![g] = @ + 1]
    /\ label' = [label EXCEPT ![g] = l]
    /\ IF l \in Known
         THEN /\ c' = [c EXCEPT ![g] = children[l]]
              /\ pc' = [pc EXCEPT ![g] = "inc"]
         ELSE /\ c' = [c EXCEPT ![g] = NoCounter]
              /\ pc' = [pc EXCEPT ![g] = "create"]
    /\ UNCHANGED <<heap, children, incs, scrape>>

\* Mutant: the second check under the write lock is missing.
CreateUnchecked(g) ==
    /\ pc[g] = "create"
    /\ ~scraping
    /\ heap' = Append(heap, 0)
    /\ children' = [l \in Known \cup {label[g]} |->
                       IF l = label[g] THEN Len(heap') ELSE children[l]]
    /\ c' = [c EXCEPT ![g] = Len(heap')]
    /\ pc' = [pc EXCEPT ![g] = "inc"]
    /\ UNCHANGED <<label, calls, incs, scrape>>

\* The section under Lock: check again, then create.
Create(g) ==
    /\ pc[g] = "create"
    /\ ~scraping
    /\ IF label[g] \in Known
         THEN /\ c' = [c EXCEPT ![g] = children[label[g]]]
              /\ UNCHANGED <<heap, children>>
         ELSE /\ heap' = Append(heap, 0)
              /\ children' = [l \in Known \cup {label[g]} |->
                                 IF l = label[g] THEN Len(heap') ELSE children[l]]
              /\ c' = [c EXCEPT ![g] = Len(heap')]
    /\ pc' = [pc EXCEPT ![g] = "inc"]
    /\ UNCHANGED <<label, calls, incs, scrape>>

\* Counter.Inc, an atomic add outside the locks.
Inc(g) ==
    /\ pc[g] = "inc"
    /\ heap' = [heap EXCEPT ![c[g]] = @ + 1]
    /\ incs' = [incs EXCEPT ![label[g]] = @ + 1]
    /\ pc' = [pc EXCEPT ![g] = "idle"]
    /\ UNCHANGED <<children, label, c, calls, scrape>>

-----------------------------------------------------------------------------

\* writeCounterVec: RLock, then the list of the labels.
ScrapeStarts ==
    /\ ~scraping
    /\ scraping' = TRUE
    /\ unread' = Known
    /\ values' = [l \in {} |-> 0]
    /\ atStart' = incs
    /\ UNCHANGED callers

ScrapeReads(l) ==
    /\ scraping
    /\ l \in unread
    /\ values' = [k \in DOMAIN values \cup {l} |->
                     IF k = l THEN heap[children[l]] ELSE values[k]]
    /\ unread' = unread \ {l}
    /\ UNCHANGED <<callers, scraping, atStart>>

\* Mutant: the read lock is not released.
ScrapeEndsLocked ==
    /\ scraping
    /\ unread = {}
    /\ UNCHANGED vars

\* RUnlock.
ScrapeEnds ==
    /\ scraping
    /\ unread = {}
    /\ scraping' = FALSE
    /\ UNCHANGED <<callers, unread, values, atStart>>

Call(g) == (\E l \in Label : Lookup(g, l)) \/ Create(g) \/ Inc(g)

Scrape == ScrapeStarts \/ (\E l \in Label : ScrapeReads(l)) \/ ScrapeEnds

Next == (\E g \in Caller : Call(g)) \/ Scrape

\* Goroutines are scheduled, and a mutex is handed over in the end.
Fairness == \A g \in Caller : WF_vars(Inc(g)) /\ SF_vars(Create(g))

Spec == Init /\ [][Next]_vars

FairSpec == Spec /\ Fairness /\ WF_vars(ScrapeEnds) /\ WF_vars(\E l \in Label : ScrapeReads(l))

-----------------------------------------------------------------------------

\* The number the family shows for a label.
Shown(l) == IF l \in Known THEN heap[children[l]] ELSE 0

\* With and Inc together lose no increment, whoever else creates the counter
\* of the same label in the meantime.
NothingLost == \A l \in Label : Shown(l) = incs[l]

\* A scrape is never older than its own start, nor ahead of the truth, so two
\* scrapes in a row never see a counter go down (Prometheus would take that
\* for a restart): every completed increment is seen, and a label that is not
\* shown had none.
ScrapeIsCurrent ==
    /\ \A l \in DOMAIN values : values[l] \in atStart[l]..incs[l]
    /\ scraping => \A l \in Label \ (DOMAIN values \cup unread) : atStart[l] = 0

\* No call waits for ever for the lock: every started increment completes.
EveryCallReturns == \A g \in Caller : pc[g] # "idle" ~> pc[g] = "idle"
=============================================================================
