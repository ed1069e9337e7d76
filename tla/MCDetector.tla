----------------------------- MODULE MCDetector -----------------------------
(***************************************************************************)
(* The detector for TLC: two vehicles and every list of at most two        *)
(* identifiers, the empty one included, as the result of a poll.           *)
(***************************************************************************)
EXTENDS DetectorHistory, DetectorRefinement, SequencesExt

CONSTANTS v1, v2

MCVehicle == {v1, v2}

MCReport == SeqOf(MCVehicle \cup {NoID}, 2)
=============================================================================
