------------------------------ MODULE MCStore ------------------------------
(***************************************************************************)
(* The store for TLC: two processes, snapshots of none, one or two         *)
(* vehicles, and more calls than a pool has connections.                   *)
(***************************************************************************)
EXTENDS Store

\* A connection that is not given back is missed by a later call.
ASSUME PoolAssumption == MaxSaves > MaxConns
=============================================================================
