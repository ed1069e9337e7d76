------------------------- MODULE DetectorRefinement -------------------------
(***************************************************************************)
(* The detector implements the appearance feed: its stamps are one way to  *)
(* keep the remaining silence of every vehicle, and forgetting a stamp in  *)
(* prune is a step nobody can see.                                         *)
(***************************************************************************)
EXTENDS Detector

\* The doubled cooldown of prune is representable: below 146 years.
ASSUME CooldownFits == 2 * RealertAfter <= MaxDuration

\* The remaining silence a stamp stands for.
Remaining(id) ==
    IF id \notin DOMAIN lastAlerted THEN 0
    ELSE IF RealertAfter = 0 THEN -1
    ELSE IF clock - lastAlerted[id] >= RealertAfter THEN 0
    ELSE RealertAfter - (clock - lastAlerted[id])

Feed == INSTANCE AppearanceFeed WITH
            inFence   <- present,
            quiet     <- [id \in Vehicle |-> Remaining(id)],
            watching  <- started,
            announced <- diff.New,
            left      <- diff.Gone

\* Every behaviour of the detector is a behaviour of the feed: who Update
\* announces depends only on the previous poll and on the silence left.
ImplementsFeed == Feed!FeedSpec
=============================================================================
