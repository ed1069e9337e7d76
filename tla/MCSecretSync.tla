---------------------------- MODULE MCSecretSync ----------------------------
(***************************************************************************)
(* For TLC: the timer and one run by hand, two rotations of which the      *)
(* first is malformed, and two names for pods.                             *)
(***************************************************************************)
EXTENDS SecretSync

MCMalformed == {2}
=============================================================================
