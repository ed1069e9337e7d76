------------------------------ MODULE MCRunner ------------------------------
(***************************************************************************)
(* The runner for TLC.  A unit of time is 5 s: polls every 20 s, requests  *)
(* of at most 10 s, notifications of at most 15 s, and a cap scaled down   *)
(* to 50 s, which the third failure reaches.                               *)
(***************************************************************************)
EXTENDS Runner

CONSTANTS v1, v2

OneVehicle == {v1}
TwoVehicles == {v1, v2}
=============================================================================
