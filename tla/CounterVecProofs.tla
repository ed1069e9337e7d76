-------------------------- MODULE CounterVecProofs --------------------------
(***************************************************************************)
(* The counter family loses no increment, for any number of goroutines and *)
(* labels.                                                                 *)
(***************************************************************************)
EXTENDS CounterVec, TLAPS

\* No two labels share a counter: an increment of one is not seen in another.
Distinct ==
    \A l, k \in Known : children[l] = children[k] => l = k

\* Whoever is about to increment holds the counter its label leads to.
Holding ==
    \A g \in Caller : pc[g] = "inc" => label[g] \in Known /\ c[g] = children[label[g]]

Shape ==
    /\ heap \in Seq(Nat)
    /\ Known \in SUBSET Label
    /\ children \in [Known -> Allocated]
    /\ pc \in [Caller -> {"idle", "create", "inc"}]
    /\ label \in [Caller -> Label]
    /\ c \in [Caller -> Allocated \cup {NoCounter}]
    /\ incs \in [Label -> Nat]

\* The inductive invariant.  The sums are right only as long as nobody holds
\* a counter that was replaced, and that is what the second check ensures.
CounterInv == Shape /\ Distinct /\ Holding /\ NothingLost

\* Allocating a counter keeps the old ones, at their addresses.
LEMMA Allocation ==
    ASSUME heap \in Seq(Nat), NEW h, h = Append(heap, 0)
    PROVE  /\ h \in Seq(Nat)
           /\ Len(h) \in DOMAIN h
           /\ Len(h) \notin DOMAIN heap
           /\ h[Len(h)] = 0
           /\ \A a \in DOMAIN heap : a \in DOMAIN h /\ h[a] = heap[a]
  OBVIOUS

\* Init establishes the invariant.
LEMMA InitCounter == Init => CounterInv
  <1> SUFFICES ASSUME Init PROVE CounterInv
    OBVIOUS
  <1>1. Shape
    BY DEF Init, Shape, Known, Allocated
  <1> QED
    BY <1>1 DEF Init, CounterInv, Distinct, Holding, NothingLost, Shown, Known

\* The optimistic read: it changes no counter.
LEMMA LookupKeeps ==
    ASSUME CounterInv, NEW g \in Caller, NEW l \in Label, Lookup(g, l)
    PROVE  CounterInv'
  <1> USE DEF CounterInv, Lookup, scrape
  <1>1. Shape'
    BY DEF Shape, Known, Allocated
  <1>2. Distinct'
    BY DEF Distinct, Known
  <1>3. Holding'
    BY DEF Holding, Shape, Known
  <1>4. NothingLost'
    BY DEF NothingLost, Shown, Known
  <1> QED
    BY <1>1, <1>2, <1>3, <1>4

\* The section under the write lock: an existing counter is taken over, a new
\* one starts from 0, the number its label had.
LEMMA CreateKeeps ==
    ASSUME CounterInv, NEW g \in Caller, Create(g)
    PROVE  CounterInv'
  <1> USE DEF CounterInv
  <1>1. CASE label[g] \in Known
    <2>1. UNCHANGED <<heap, children, label, incs>> /\ pc' = [pc EXCEPT ![g] = "inc"]
          /\ c' = [c EXCEPT ![g] = children[label[g]]]
      BY <1>1 DEF Create
    <2>2. Shape'
      BY <1>1, <2>1 DEF Shape, Known, Allocated
    <2>3. Distinct' /\ NothingLost'
      BY <2>1 DEF Distinct, NothingLost, Shown, Known
    <2>4. Holding'
      BY <1>1, <2>1 DEF Holding, Shape, Known
    <2> QED
      BY <2>2, <2>3, <2>4
  <1>2. CASE label[g] \notin Known
    <2> DEFINE new == Len(heap')
    <2>1. /\ heap' = Append(heap, 0)
          /\ children' = [l \in Known \cup {label[g]} |->
                             IF l = label[g] THEN new ELSE children[l]]
          /\ c' = [c EXCEPT ![g] = new]
          /\ pc' = [pc EXCEPT ![g] = "inc"]
          /\ UNCHANGED <<label, incs>>
      BY <1>2 DEF Create
    <2>2. /\ heap' \in Seq(Nat)
          /\ new \in DOMAIN heap'
          /\ new \notin DOMAIN heap
          /\ heap'[new] = 0
          /\ \A a \in DOMAIN heap : a \in DOMAIN heap' /\ heap'[a] = heap[a]
      BY <2>1, Allocation DEF Shape
    <2>3. Known' = Known \cup {label[g]} /\ label[g] \in Label
      BY <2>1 DEF Known, Shape
    <2> HIDE DEF new
    <2>4. Shape'
      BY <2>1, <2>2, <2>3 DEF Shape, Known, Allocated
    <2>5. Distinct'
      BY <2>1, <2>2, <2>3 DEF Distinct, Shape, Known, Allocated
    <2>6. Holding'
      BY <1>2, <2>1, <2>3 DEF Holding, Shape, Known
    <2>7. NothingLost'
      <3> SUFFICES ASSUME NEW l \in Label PROVE Shown(l)' = incs'[l]
        BY DEF NothingLost
      <3>1. Shown(l) = incs[l] /\ incs'[l] = incs[l]
        BY <2>1 DEF NothingLost
      <3>2. CASE l = label[g]
        BY <1>2, <2>1, <2>2, <2>3, <3>1, <3>2 DEF Shown, Known
      <3>3. CASE l # label[g] /\ l \in Known
        BY <2>1, <2>2, <2>3, <3>1, <3>3 DEF Shown, Shape, Known, Allocated
      <3>4. CASE l # label[g] /\ l \notin Known
        BY <2>1, <2>3, <3>1, <3>4 DEF Shown
      <3> QED
        BY <3>2, <3>3, <3>4
    <2> QED
      BY <2>4, <2>5, <2>6, <2>7
  <1> QED
    BY <1>1, <1>2

\* The increment: it raises the number of its label and no other.
LEMMA IncKeeps ==
    ASSUME CounterInv, NEW g \in Caller, Inc(g)
    PROVE  CounterInv'
  <1> USE DEF CounterInv
  <1>1. /\ pc[g] = "inc"
        /\ heap' = [heap EXCEPT ![c[g]] = @ + 1]
        /\ incs' = [incs EXCEPT ![label[g]] = @ + 1]
        /\ pc' = [pc EXCEPT ![g] = "idle"]
        /\ UNCHANGED <<children, label, c>>
    BY DEF Inc
  <1>2. /\ label[g] \in Known /\ label[g] \in Label
        /\ c[g] = children[label[g]] /\ c[g] \in DOMAIN heap
    BY <1>1 DEF Holding, Shape, Known, Allocated
  <1>3. /\ heap' \in Seq(Nat)
        /\ DOMAIN heap' = DOMAIN heap
        /\ heap'[c[g]] = heap[c[g]] + 1
        /\ \A a \in DOMAIN heap : a # c[g] => heap'[a] = heap[a]
    BY <1>1, <1>2 DEF Shape
  <1>4. Shape'
    BY <1>1, <1>2, <1>3 DEF Shape, Known, Allocated
  <1>5. Distinct' /\ Holding'
    BY <1>1 DEF Distinct, Holding, Shape, Known
  <1>6. NothingLost'
    <2> SUFFICES ASSUME NEW l \in Label PROVE Shown(l)' = incs'[l]
      BY DEF NothingLost
    <2>1. Shown(l) = incs[l] /\ incs \in [Label -> Nat]
      BY DEF NothingLost, Shape
    <2>2. CASE l = label[g]
      BY <1>1, <1>2, <1>3, <2>1, <2>2 DEF Shown, Known
    <2>3. CASE l # label[g] /\ l \in Known
      <3>1. children[l] # c[g] /\ children[l] \in DOMAIN heap
        BY <1>2, <2>3 DEF Distinct, Shape, Known, Allocated
      <3> QED
        BY <1>1, <1>3, <2>1, <2>3, <3>1 DEF Shown, Known
    <2>4. CASE l # label[g] /\ l \notin Known
      BY <1>1, <2>1, <2>4 DEF Shown, Known
    <2> QED
      BY <2>2, <2>3, <2>4
  <1> QED
    BY <1>4, <1>5, <1>6

\* A scrape, or a step of something else, touches none of it.
LEMMA OthersKeep ==
    ASSUME CounterInv, UNCHANGED callers
    PROVE  CounterInv'
  BY DEF CounterInv, callers, Shape, Distinct, Holding, NothingLost, Shown, Known, Allocated

\* Every step of the family keeps the invariant.
LEMMA StepCounter == CounterInv /\ [Next]_vars => CounterInv'
  <1> SUFFICES ASSUME CounterInv, [Next]_vars PROVE CounterInv'
    OBVIOUS
  <1>1. CASE \E g \in Caller : Call(g)
    BY <1>1, LookupKeeps, CreateKeeps, IncKeeps DEF Call
  <1>2. CASE Scrape
    <2>1. UNCHANGED callers
      BY <1>2 DEF Scrape, ScrapeStarts, ScrapeReads, ScrapeEnds, callers
    <2> QED
      BY <2>1, OthersKeep
  <1>3. CASE UNCHANGED vars
    BY <1>3, OthersKeep DEF vars
  <1> QED
    BY <1>1, <1>2, <1>3 DEF Next

\* NothingLost, for any number of goroutines, labels and increments: With may
\* be called concurrently (the double check of counterVec.With).
THEOREM NothingLostTheorem == Spec => []NothingLost
  <1>1. CounterInv => NothingLost
    BY DEF CounterInv
  <1> QED
    BY InitCounter, StepCounter, <1>1, PTL DEF Spec

-----------------------------------------------------------------------------
(* A scrape is current.                                                    *)

\* What a scrape has read, and what it may still read, lies between the truth
\* at its start and the truth now.
ScrapeInv ==
    /\ atStart \in [Label -> Nat]
    /\ \A l \in Label : atStart[l] <= incs[l]
    /\ unread \subseteq Known
    /\ DOMAIN values \subseteq Label
    /\ ScrapeIsCurrent

\* Init establishes it.
LEMMA InitScrape == Init => ScrapeInv
  BY DEF Init, ScrapeInv, ScrapeIsCurrent, Known

\* A call only raises the truth, and creates labels that had no increment.
LEMMA CallKeepsScrape ==
    ASSUME CounterInv, ScrapeInv, NEW g \in Caller, Call(g)
    PROVE  ScrapeInv'
  <1>1. UNCHANGED scrape
    BY DEF Call, Lookup, Create, Inc
  <1>2. Known \subseteq Known'
    BY DEF Call, Lookup, Create, Inc, Known
  <1>3. ASSUME NEW l \in Label
        PROVE  incs[l] \in Nat /\ (incs'[l] = incs[l] \/ incs'[l] = incs[l] + 1)
    BY DEF CounterInv, Shape, Call, Lookup, Create, Inc
  <1>4. \A l \in Label : atStart'[l] <= incs'[l]
    BY <1>1, <1>3 DEF ScrapeInv, scrape
  <1>5. ScrapeIsCurrent'
    <2>1. \A l \in DOMAIN values' : values'[l] \in atStart'[l]..incs'[l]
      BY <1>1, <1>3 DEF ScrapeInv, ScrapeIsCurrent, scrape
    <2>2. scraping' => \A l \in Label \ (DOMAIN values' \cup unread') : atStart'[l] = 0
      BY <1>1 DEF ScrapeInv, ScrapeIsCurrent, scrape
    <2> QED
      BY <2>1, <2>2 DEF ScrapeIsCurrent
  <1> QED
    BY <1>1, <1>2, <1>4, <1>5 DEF ScrapeInv, scrape

\* A scrape starts with every label that was ever incremented, and reads the
\* truth.
LEMMA ScrapeKeeps ==
    ASSUME CounterInv, ScrapeInv, Scrape
    PROVE  ScrapeInv'
  <1>0. incs \in [Label -> Nat] /\ \A l \in Label : Shown(l) = incs[l]
    BY DEF CounterInv, Shape, NothingLost
  <1>1. UNCHANGED <<heap, children, incs>> /\ Known' = Known
    BY DEF Scrape, ScrapeStarts, ScrapeReads, ScrapeEnds, callers, Known
  <1>2. CASE ScrapeStarts
    <2>1. /\ unread' = Known /\ atStart' = incs /\ DOMAIN values' = {}
      BY <1>2 DEF ScrapeStarts
    <2>2. \A l \in Label \ Known : incs[l] = 0
      BY <1>0 DEF Shown
    <2> QED
      BY <1>0, <1>1, <2>1, <2>2 DEF ScrapeInv, ScrapeIsCurrent
  <1>3. ASSUME NEW l \in Label, ScrapeReads(l) PROVE ScrapeInv'
    <2>1. /\ l \in unread /\ unread' = unread \ {l} /\ UNCHANGED <<scraping, atStart>>
          /\ values' = [k \in DOMAIN values \cup {l} |->
                           IF k = l THEN heap[children[l]] ELSE values[k]]
      BY <1>3 DEF ScrapeReads
    <2>2. heap[children[l]] = incs[l]
      BY <1>0, <2>1 DEF Shown, ScrapeInv
    <2>3. \A k \in DOMAIN values' : values'[k] \in atStart[k]..incs[k]
      BY <1>0, <2>1, <2>2 DEF ScrapeInv, ScrapeIsCurrent
    <2> QED
      BY <1>1, <2>1, <2>3 DEF ScrapeInv, ScrapeIsCurrent
  <1>4. CASE ScrapeEnds
    BY <1>1, <1>4 DEF ScrapeEnds, ScrapeInv, ScrapeIsCurrent
  <1> QED
    BY <1>2, <1>3, <1>4 DEF Scrape

\* ScrapeIsCurrent, for any number of goroutines and labels: a scrape sees all
\* that was completed before it, and nothing that has not happened
\* (writeCounterVec under the read lock).
THEOREM ScrapeTheorem == Spec => []ScrapeIsCurrent
  <1> DEFINE Inv == CounterInv /\ ScrapeInv
  <1>1. Inv /\ [Next]_vars => Inv'
    <2> SUFFICES ASSUME Inv, [Next]_vars PROVE ScrapeInv'
      BY StepCounter
    <2>1. CASE UNCHANGED vars
      BY <2>1 DEF vars, callers, scrape, ScrapeInv, ScrapeIsCurrent, Known
    <2> QED
      BY <2>1, CallKeepsScrape, ScrapeKeeps DEF Next
  <1>2. Inv => ScrapeIsCurrent
    BY DEF ScrapeInv
  <1> QED
    BY InitCounter, InitScrape, <1>1, <1>2, PTL DEF Spec
=============================================================================
