---------------------------- MODULE MCExposition ----------------------------
(***************************************************************************)
(* For TLC, in units of 5 s: an interval of 10 s, a call of 10 s and 5 s   *)
(* for the report.  The jitter is as large as the interval: a pause of 0   *)
(* lets the next poll overtake a scrape.  The way from one good poll to    *)
(* the next takes 9 of the 10 units of MaxAge, so that one step of the     *)
(* wall clock must be harmless, and 8 units (MaxAgeFour) are too few.      *)
(***************************************************************************)
EXTENDS Exposition

MCBackoff == {1, 10}
MCBounds == {0, 1}
=============================================================================
