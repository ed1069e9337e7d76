--------------------------- MODULE DetectorProofs ---------------------------
(***************************************************************************)
(* Proofs about the detector, for every fleet, every set of reports and    *)
(* every cooldown that fits twice in a time.Duration.                      *)
(***************************************************************************)
EXTENDS DetectorHistory, DetectorRefinement, FiniteSetTheorems, TLAPS

-----------------------------------------------------------------------------
(* Helpers of the model.                                                   *)

\* The current set of a poll holds identifiers of the fleet, finitely many:
\* the first loop of Update.
LEMMA IdentifiedType ==
    ASSUME NEW inFence \in Report
    PROVE  /\ Identified(inFence) \in SUBSET Vehicle
           /\ Cardinality(Identified(inFence)) \in Nat
<1>1. inFence \in Seq(Vehicle \cup {NoID})
  BY ReportAssumption
<1>2. Identified(inFence) \in SUBSET Vehicle
  BY <1>1 DEF Identified
<1>3. IsFiniteSet(DOMAIN inFence)
  <2>1. DOMAIN inFence = 1..Len(inFence) /\ Len(inFence) \in Nat
    BY <1>1
  <2> QED
    BY <2>1, FS_Interval
<1>4. IsFiniteSet({inFence[i] : i \in DOMAIN inFence})
  <2> DEFINE T == {inFence[i] : i \in DOMAIN inFence}
  <2>1. inFence \in Surjection(DOMAIN inFence, T)
    BY <1>1 DEF Surjection
  <2> QED
    BY <1>3, <2>1, FS_Surjection
<1>5. IsFiniteSet(Identified(inFence))
  BY <1>4, FS_Difference DEF Identified
<1> QED
  BY <1>2, <1>5, FS_CardinalityType

\* The bound of prune is the true double of the cooldown.
LEMMA DoubledCooldown ==
    /\ Wrapped(2 * RealertAfter) = 2 * RealertAfter
    /\ RealertAfter \in Nat
BY CooldownFits, DurationAssumption DEF Wrapped

-----------------------------------------------------------------------------
(* Type correctness.                                                       *)

\* NewDetector starts well typed.
LEMMA InitType == Init => TypeOK
<1> SUFFICES ASSUME Init
             PROVE  TypeOK
  OBVIOUS
<1>1. diff \in DiffType
  BY DEF Init, DiffType
<1>2. lastAlerted \in [DOMAIN lastAlerted -> 0..clock] /\ DOMAIN lastAlerted = {}
  BY DEF Init
<1>3. clock \in 0..MaxClock /\ present \in SUBSET Vehicle
  BY DurationAssumption DEF Init
<1>4. started \in BOOLEAN
  BY DEF Init
<1> QED
  BY <1>1, <1>2, <1>3, <1>4 DEF TypeOK

\* Update and the passing of time keep the types.
LEMMA StepType == TypeOK /\ [Next]_vars => TypeOK'
<1> SUFFICES ASSUME TypeOK, [Next]_vars
             PROVE  TypeOK'
  OBVIOUS
<1> USE DurationAssumption DEF TypeOK
<1>1. CASE Tick
  BY <1>1 DEF Tick
<1>2. CASE Poll
  <2>1. PICK inFence \in Report : Update(inFence)
    BY <1>2 DEF Poll
  <2> DEFINE current   == Identified(inFence)
             appearing == {id \in current : shouldAlert(id)}
             stamps    == Stamped(appearing)
  <2>2. current \in SUBSET Vehicle /\ Cardinality(current) \in Nat
    BY IdentifiedType
  <2>3. /\ clock' = clock
        /\ present' = current
        /\ started' = TRUE
        /\ lastAlerted' = Pruned(stamps, current)
        /\ diff' = [New      |-> IF started THEN appearing ELSE {},
                    Gone     |-> present \ current,
                    Present  |-> Cardinality(current),
                    FirstRun |-> ~started]
    BY <2>1 DEF Update
  <2>4. diff' \in DiffType
    BY <2>2, <2>3 DEF DiffType
  <2>5. /\ DOMAIN stamps \in SUBSET Vehicle
        /\ stamps \in [DOMAIN stamps -> 0..clock]
    BY <2>2 DEF Stamped
  <2>6. /\ DOMAIN Pruned(stamps, current) \in SUBSET DOMAIN stamps
        /\ Pruned(stamps, current) \in [DOMAIN Pruned(stamps, current) -> 0..clock]
    BY <2>5 DEF Pruned
  <2> HIDE DEF current, appearing, stamps
  <2> QED
    BY <2>2, <2>3, <2>4, <2>5, <2>6
<1>3. CASE UNCHANGED vars
  BY <1>3 DEF vars, DiffType
<1> QED
  BY <1>1, <1>2, <1>3 DEF Next

\* No step of the detector leaves the declared types: both memories stay
\* within the fleet and no stamp is ahead of the clock (Update, prune).
THEOREM TypeCorrect == Spec => []TypeOK
BY InitType, StepType, PTL DEF Spec

-----------------------------------------------------------------------------
(* What the two memories mean to an observer of the alerts.                *)

HistoryType ==
    /\ announcedAt \in [DOMAIN announcedAt -> 0..clock]
    /\ foundAt \in [DOMAIN foundAt -> 0..clock]

\* A stamp is the time of the last notice.
StampsAreNotices ==
    \A id \in DOMAIN lastAlerted :
        id \in Noticed /\ lastAlerted[id] = NoticedAt(id)

\* What prune forgot is older than any cooldown.
ForgottenIsOld ==
    \A id \in Noticed \ DOMAIN lastAlerted :
        RealertAfter > 0 /\ clock - NoticedAt(id) > 2 * RealertAfter

\* Nothing was noticed before the first poll.
BlankStart == ~started => Noticed = {} /\ present = {}

\* The inductive invariant behind the theorems on announcements.  Without
\* ForgottenIsOld a pruned vehicle could be announced too early.
HistoryInv ==
    /\ TypeOK
    /\ HistoryType
    /\ StampsAreNotices
    /\ ForgottenIsOld
    /\ BlankStart

\* What one Update does, with its locals named.
LEMMA UpdateEffect ==
    ASSUME NEW inFence \in Report, Update(inFence), TypeOK
    PROVE  LET appearing == {id \in present' : shouldAlert(id)}
               stamps    == Stamped(appearing)
           IN  /\ clock' = clock
               /\ present' \in SUBSET Vehicle
               /\ started' = TRUE
               /\ diff'.New = IF started THEN appearing ELSE {}
               /\ diff'.Gone = present \ present'
               /\ DOMAIN stamps = DOMAIN lastAlerted \cup appearing
               /\ \A id \in DOMAIN stamps :
                     stamps[id] = IF id \in appearing THEN clock ELSE lastAlerted[id]
               /\ DOMAIN lastAlerted' =
                     {id \in DOMAIN stamps :
                        RealertAfter > 0 /\ id \notin present'
                           => clock - stamps[id] <= 2 * RealertAfter}
               /\ \A id \in DOMAIN lastAlerted' : lastAlerted'[id] = stamps[id]
<1> DEFINE appearing == {id \in present' : shouldAlert(id)}
           stamps    == Stamped(appearing)
<1>1. /\ present' = Identified(inFence)
      /\ clock' = clock
      /\ started' = TRUE
      /\ diff'.New = IF started THEN appearing ELSE {}
      /\ diff'.Gone = present \ present'
      /\ lastAlerted' = Pruned(stamps, present')
  BY DEF Update
<1>2. present' \in SUBSET Vehicle
  BY <1>1, IdentifiedType
<1>3. /\ DOMAIN stamps = DOMAIN lastAlerted \cup appearing
      /\ \A id \in DOMAIN stamps :
            stamps[id] = IF id \in appearing THEN clock ELSE lastAlerted[id]
  BY DEF Stamped
<1>4. \A id \in DOMAIN stamps : stamps[id] \in Int
  BY <1>3 DEF TypeOK
<1> HIDE DEF stamps
<1>5. Expired(stamps, present') =
         {id \in DOMAIN stamps \ present' :
             RealertAfter > 0 /\ clock - stamps[id] > 2 * RealertAfter}
  BY DoubledCooldown DEF Expired
<1>6. /\ DOMAIN lastAlerted' =
            {id \in DOMAIN stamps :
               RealertAfter > 0 /\ id \notin present'
                  => clock - stamps[id] <= 2 * RealertAfter}
      /\ \A id \in DOMAIN lastAlerted' : lastAlerted'[id] = stamps[id]
  <2>1. /\ DOMAIN lastAlerted' = DOMAIN stamps \ Expired(stamps, present')
        /\ \A id \in DOMAIN lastAlerted' : lastAlerted'[id] = stamps[id]
    BY <1>1 DEF Pruned
  <2>2. \A id \in DOMAIN stamps :
           clock - stamps[id] > 2 * RealertAfter
              <=> ~(clock - stamps[id] <= 2 * RealertAfter)
    BY <1>4, DoubledCooldown DEF TypeOK
  <2> QED
    BY <1>5, <2>1, <2>2
<1> QED
  BY <1>1, <1>2, <1>3, <1>6 DEF stamps

\* Where the next notices come from: a poll notices exactly the appearing
\* vehicles, as announced ones or, the first time, as found ones.
LEMMA NoticeEffect ==
    ASSUME HistoryInv, HPoll
    PROVE  LET appearing == {id \in present' : shouldAlert(id)}
           IN  /\ Noticed' = Noticed \cup appearing
               /\ \A id \in Noticed' :
                     NoticedAt(id)' = IF id \in appearing THEN clock ELSE NoticedAt(id)
<1> DEFINE appearing == {id \in present' : shouldAlert(id)}
<1>1. PICK inFence \in Report : Update(inFence)
  BY DEF HPoll, Poll
<1>2. diff'.New = IF started THEN appearing ELSE {}
  BY <1>1, UpdateEffect DEF HistoryInv
<1>3. started => foundAt' = Recorded(foundAt, {})
  BY DEF HPoll
<1>4. ~started => foundAt' = Recorded(foundAt, present') /\ appearing = present'
  <2>1. ~started => DOMAIN lastAlerted = {} /\ present = {}
    BY DEF HistoryInv, BlankStart, StampsAreNotices
  <2> QED
    BY <2>1 DEF HPoll, shouldAlert
<1>5. announcedAt' = Recorded(announcedAt, diff'.New)
  BY DEF HPoll
<1> HIDE DEF appearing
<1>6. CASE started
  BY <1>2, <1>3, <1>5, <1>6 DEF Recorded, Noticed, NoticedAt, appearing
<1>7. CASE ~started
  <2>1. Noticed = {}
    BY <1>7 DEF HistoryInv, BlankStart
  <2> QED
    BY <1>2, <1>4, <1>5, <1>7, <2>1 DEF Recorded, Noticed, NoticedAt, appearing
<1> QED
  BY <1>6, <1>7 DEF HistoryInv, TypeOK, appearing

\* The invariant holds throughout: stamps and notices agree, and whatever the
\* detector forgot was old enough to be forgotten (Update, prune).
THEOREM HistoryInvariant == HSpec => []HistoryInv
<1>1. HInit => HistoryInv
  <2> SUFFICES ASSUME HInit
               PROVE  HistoryInv
    OBVIOUS
  <2>1. TypeOK
    BY InitType DEF HInit
  <2>2. /\ DOMAIN announcedAt = {} /\ announcedAt \in [DOMAIN announcedAt -> 0..clock]
        /\ DOMAIN foundAt = {} /\ foundAt \in [DOMAIN foundAt -> 0..clock]
    BY DEF HInit
  <2>3. DOMAIN lastAlerted = {} /\ present = {}
    BY DEF HInit, Init
  <2> QED
    BY <2>1, <2>2, <2>3
    DEF HistoryInv, HistoryType, StampsAreNotices, ForgottenIsOld, BlankStart, Noticed
<1>2. HistoryInv /\ [HNext]_hvars => HistoryInv'
  <2> SUFFICES ASSUME HistoryInv, [HNext]_hvars
               PROVE  HistoryInv'
    OBVIOUS
  <2>0. [Next]_vars
    BY DEF HNext, HTick, HPoll, Next, hvars
  <2>1. TypeOK'
    BY <2>0, StepType DEF HistoryInv
  <2>2. CASE HTick
    BY <2>1, <2>2, DurationAssumption
    DEF HTick, Tick, history, HistoryInv, TypeOK, HistoryType, StampsAreNotices,
        ForgottenIsOld, BlankStart, Noticed, NoticedAt
  <2>3. CASE HPoll
    <3> DEFINE appearing == {id \in present' : shouldAlert(id)}
               stamps    == Stamped(appearing)
    <3>1. PICK inFence \in Report : Update(inFence)
      BY <2>3 DEF HPoll, Poll
    <3>2. /\ clock' = clock
          /\ started' = TRUE
          /\ DOMAIN stamps = DOMAIN lastAlerted \cup appearing
          /\ \A id \in DOMAIN stamps :
                stamps[id] = IF id \in appearing THEN clock ELSE lastAlerted[id]
          /\ DOMAIN lastAlerted' =
                {id \in DOMAIN stamps :
                   RealertAfter > 0 /\ id \notin present'
                      => clock - stamps[id] <= 2 * RealertAfter}
          /\ \A id \in DOMAIN lastAlerted' : lastAlerted'[id] = stamps[id]
      BY <3>1, UpdateEffect DEF HistoryInv
    <3>3. /\ Noticed' = Noticed \cup appearing
          /\ \A id \in Noticed' :
                NoticedAt(id)' = IF id \in appearing THEN clock ELSE NoticedAt(id)
      BY <2>3, NoticeEffect
    <3> HIDE DEF appearing, stamps
    <3>4. HistoryType'
      BY <2>3, <3>2 DEF HistoryInv, HistoryType, HPoll, Recorded, TypeOK
    <3>5. StampsAreNotices'
      BY <3>2, <3>3 DEF HistoryInv, StampsAreNotices
    <3>6. ForgottenIsOld'
      <4> SUFFICES ASSUME NEW id \in Noticed', id \notin DOMAIN lastAlerted'
                   PROVE  RealertAfter > 0 /\ clock - NoticedAt(id)' > 2 * RealertAfter
        BY <3>2 DEF ForgottenIsOld
      <4>1. CASE id \in DOMAIN stamps
        <5>1. RealertAfter > 0 /\ ~(clock - stamps[id] <= 2 * RealertAfter)
          BY <3>2, <4>1
        <5>2. stamps[id] = NoticedAt(id)'
          BY <3>2, <3>3, <4>1 DEF HistoryInv, StampsAreNotices
        <5>3. stamps[id] \in Int
          BY <3>2, <4>1 DEF HistoryInv, TypeOK
        <5> QED
          BY <5>1, <5>2, <5>3, DurationAssumption DEF HistoryInv, TypeOK
      <4>2. CASE id \notin DOMAIN stamps
        BY <3>2, <3>3, <4>2 DEF HistoryInv, ForgottenIsOld
      <4> QED
        BY <4>1, <4>2
    <3>7. BlankStart'
      BY <3>2 DEF BlankStart
    <3> QED
      BY <2>1, <3>4, <3>5, <3>6, <3>7 DEF HistoryInv
  <2>4. CASE UNCHANGED hvars
    BY <2>4
    DEF hvars, vars, history, HistoryInv, TypeOK, DiffType, HistoryType,
        StampsAreNotices, ForgottenIsOld, BlankStart, Noticed, NoticedAt
  <2> QED
    BY <2>2, <2>3, <2>4 DEF HNext
<1> QED
  BY <1>1, <1>2, PTL DEF HSpec

-----------------------------------------------------------------------------
(* The promises of the detector.                                           *)

\* Anti-flapping: no announcement of a vehicle within RealertAfter of its last
\* notice, and none at all if RealertAfter is 0 (shouldAlert, prune).
THEOREM CooldownTheorem == HSpec => CooldownHonoured
<1>1. HistoryInv /\ [HNext]_hvars =>
         [HPoll => \A id \in diff'.New : ~Cooling(id)]_hvars
  <2> SUFFICES ASSUME HistoryInv, HPoll, NEW id \in diff'.New
               PROVE  ~Cooling(id)
    OBVIOUS
  <2>1. PICK inFence \in Report : Update(inFence)
    BY DEF HPoll, Poll
  <2>2. shouldAlert(id)
    BY <2>1, UpdateEffect DEF HistoryInv
  <2>3. CASE id \in DOMAIN lastAlerted
    BY <2>2, <2>3, DurationAssumption
    DEF shouldAlert, Cooling, HistoryInv, TypeOK, StampsAreNotices
  <2>4. CASE id \notin DOMAIN lastAlerted
    <3> SUFFICES ASSUME id \in Noticed
                 PROVE  ~(clock - NoticedAt(id) < RealertAfter) /\ RealertAfter > 0
      BY DEF Cooling
    <3>1. RealertAfter > 0 /\ clock - NoticedAt(id) > 2 * RealertAfter
      BY <2>4 DEF HistoryInv, ForgottenIsOld
    <3>2. clock - NoticedAt(id) \in Int
      BY DEF HistoryInv, HistoryType, TypeOK, Noticed, NoticedAt
    <3> QED
      BY <3>1, <3>2, DurationAssumption
  <2> QED
    BY <2>3, <2>4
<1> QED
  BY <1>1, HistoryInvariant, PTL DEF HSpec, CooldownHonoured

\* No lost arrival: a vehicle that enters the fence after the first poll is
\* announced unless it is cooling (Update, shouldAlert).
THEOREM ArrivalTheorem == HSpec => ArrivalAnnounced
<1>1. HistoryInv /\ [HNext]_hvars =>
         [HPoll /\ started =>
            \A id \in present' \ present : Cooling(id) \/ id \in diff'.New]_hvars
  <2> SUFFICES ASSUME HistoryInv, HPoll, started, NEW id \in present' \ present,
                      id \notin diff'.New
               PROVE  Cooling(id)
    OBVIOUS
  <2>1. PICK inFence \in Report : Update(inFence)
    BY DEF HPoll, Poll
  <2>2. ~shouldAlert(id)
    BY <2>1, UpdateEffect DEF HistoryInv
  <2>3. /\ id \in DOMAIN lastAlerted
        /\ RealertAfter > 0 => ~(clock - lastAlerted[id] >= RealertAfter)
    BY <2>2 DEF shouldAlert
  <2> QED
    BY <2>3, DurationAssumption DEF Cooling, HistoryInv, TypeOK, StampsAreNotices
<1> QED
  BY <1>1, HistoryInvariant, PTL DEF HSpec, ArrivalAnnounced

\* Bounded memory: whoever is remembered after a poll is in the fence or was
\* noticed within the last two cooldowns (prune).
THEOREM MemoryTheorem == HSpec => MemoryBounded
<1>1. HistoryInv /\ HistoryInv' /\ [HNext]_hvars =>
         [HPoll /\ RealertAfter > 0 =>
            \A id \in DOMAIN lastAlerted' \ present' :
               clock - NoticedAt(id)' <= 2 * RealertAfter]_hvars
  <2> SUFFICES ASSUME HistoryInv, HistoryInv', HPoll, RealertAfter > 0,
                      NEW id \in DOMAIN lastAlerted' \ present'
               PROVE  clock - NoticedAt(id)' <= 2 * RealertAfter
    OBVIOUS
  <2>1. PICK inFence \in Report : Update(inFence)
    BY DEF HPoll, Poll
  <2>2. clock - lastAlerted'[id] <= 2 * RealertAfter
    BY <2>1, UpdateEffect DEF HistoryInv
  <2> QED
    BY <2>2 DEF HistoryInv, StampsAreNotices
<1> QED
  BY <1>1, HistoryInvariant, PTL DEF HSpec, MemoryBounded

-----------------------------------------------------------------------------
(* Refinement.                                                             *)

\* Passing the alert test is being an appearance of the feed.
LEMMA AlertIsAppearance ==
    ASSUME TypeOK, NEW id \in Vehicle
    PROVE  shouldAlert(id) <=> id \notin present /\ Remaining(id) = 0
<1>1. CASE id \notin DOMAIN lastAlerted
  BY <1>1 DEF shouldAlert, Remaining
<1>2. CASE id \in DOMAIN lastAlerted
  <2>1. clock - lastAlerted[id] \in Int
    BY <1>2 DEF TypeOK
  <2> QED
    BY <1>2, <2>1, DurationAssumption DEF shouldAlert, Remaining
<1> QED
  BY <1>1, <1>2

\* The detector implements the feed: stamps stand for the silence that is
\* left, and pruning one is invisible (the whole of detect.go).
THEOREM Refinement == Spec => ImplementsFeed
<1>1. Init => Feed!FeedInit
  <2> SUFFICES ASSUME Init
               PROVE  Feed!FeedInit
    OBVIOUS
  <2>1. \A id \in Vehicle : Remaining(id) = 0
    BY DEF Init, Remaining
  <2> QED
    BY <2>1 DEF Init, Feed!FeedInit
<1>2. TypeOK /\ [Next]_vars => [Feed!FeedNext]_(Feed!feed)
  <2> SUFFICES ASSUME TypeOK, [Next]_vars
               PROVE  [Feed!FeedNext]_(Feed!feed)
    OBVIOUS
  <2>1. CASE Tick
    <3>1. \A id \in Vehicle : Remaining(id)' = Feed!After(Remaining(id), 1)
      BY <2>1, DurationAssumption
      DEF Tick, Remaining, TypeOK, Feed!After, Feed!Forever
    <3> QED
      BY <2>1, <3>1 DEF Tick, Feed!FeedNext, Feed!Elapse
  <2>2. CASE Poll
    <3>1. PICK inFence \in Report : Update(inFence)
      BY <2>2 DEF Poll
    <3> DEFINE appearing == {id \in present' : shouldAlert(id)}
               stamps    == Stamped(appearing)
               quiet     == [id \in Vehicle |-> Remaining(id)]
    <3>2. /\ clock' = clock
          /\ present' \in SUBSET Vehicle
          /\ started' = TRUE
          /\ diff'.New = IF started THEN appearing ELSE {}
          /\ diff'.Gone = present \ present'
          /\ DOMAIN stamps = DOMAIN lastAlerted \cup appearing
          /\ \A id \in DOMAIN stamps :
                stamps[id] = IF id \in appearing THEN clock ELSE lastAlerted[id]
          /\ DOMAIN lastAlerted' =
                {id \in DOMAIN stamps :
                   RealertAfter > 0 /\ id \notin present'
                      => clock - stamps[id] <= 2 * RealertAfter}
          /\ \A id \in DOMAIN lastAlerted' : lastAlerted'[id] = stamps[id]
      BY <3>1, UpdateEffect
    <3>3. appearing = Feed!Appearances(present')
      BY <3>2, AlertIsAppearance DEF Feed!Appearances
    <3> HIDE DEF appearing, stamps
    <3>4. \A id \in Vehicle :
             Remaining(id)' = IF id \in appearing THEN Feed!Silence ELSE Remaining(id)
      <4> SUFFICES ASSUME NEW id \in Vehicle
                   PROVE  Remaining(id)' = IF id \in appearing THEN Feed!Silence
                                                               ELSE Remaining(id)
        OBVIOUS
      <4>1. CASE id \in appearing
        <5>1. id \in present'
          BY <4>1 DEF appearing
        <5>2. id \in DOMAIN lastAlerted' /\ lastAlerted'[id] = clock
          BY <3>2, <4>1, <5>1
        <5> QED
          BY <3>2, <4>1, <5>2, DurationAssumption
          DEF Remaining, TypeOK, Feed!Silence, Feed!Forever
      <4>2. CASE id \notin appearing /\ id \notin DOMAIN stamps
        BY <3>2, <4>2 DEF Remaining
      <4>3. CASE id \notin appearing /\ id \in DOMAIN stamps
        <5>1. id \in DOMAIN lastAlerted /\ stamps[id] = lastAlerted[id]
          BY <3>2, <4>3
        <5>2. CASE id \in DOMAIN lastAlerted'
          BY <3>2, <4>3, <5>1, <5>2 DEF Remaining
        <5>3. CASE id \notin DOMAIN lastAlerted'
          <6>1. RealertAfter > 0 /\ ~(clock - lastAlerted[id] <= 2 * RealertAfter)
            BY <3>2, <4>3, <5>1, <5>3
          <6>2. clock - lastAlerted[id] \in Int
            BY <5>1 DEF TypeOK
          <6>3. clock - lastAlerted[id] >= RealertAfter
            BY <6>1, <6>2, DurationAssumption
          <6> QED
            BY <4>3, <5>1, <5>3, <6>1, <6>3 DEF Remaining
        <5> QED
          BY <5>2, <5>3
      <4> QED
        BY <4>1, <4>2, <4>3
    <3>5. Feed!Observe(present')
      BY <3>2, <3>3, <3>4 DEF Feed!Observe
    <3> QED
      BY <3>2, <3>5 DEF Feed!FeedNext
  <2>3. CASE UNCHANGED vars
    BY <2>3 DEF vars, Feed!feed, Remaining
  <2> QED
    BY <2>1, <2>2, <2>3 DEF Next
<1> QED
  BY <1>1, <1>2, TypeCorrect, PTL DEF Spec, ImplementsFeed, Feed!FeedSpec
=============================================================================
