------------------------------ MODULE MCBackoff ------------------------------
(***************************************************************************)
(* The pace in seconds, with the values of the code: an interval of 20 s,  *)
(* a cap of 300 s.  MaxDuration is below the real 9223372036 s, which TLC  *)
(* cannot represent; what fits here fits there.                            *)
(***************************************************************************)
EXTENDS BackoffLoop

\* The configuration is one the theorems are about.
ASSUME IntervalFits == DoublingFits /\ CapReached
=============================================================================
