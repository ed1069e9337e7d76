---------------------------- MODULE MCCounterVec ----------------------------
(***************************************************************************)
(* The counter family for TLC: two goroutines, two labels, a scrape at any *)
(* moment.  A label is created once, so a third goroutine would only       *)
(* repeat what the second one does.                                        *)
(***************************************************************************)
EXTENDS CounterVec

\* The model is about goroutines that race for the same label.
ASSUME RaceAssumption == \E g, h \in Caller : g # h
=============================================================================
