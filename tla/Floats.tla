------------------------------- MODULE Floats -------------------------------
(***************************************************************************)
(* What float64 has and the integers have not: a NaN, with which every     *)
(* comparison is false.                                                    *)
(***************************************************************************)
EXTENDS Integers

\* Outside all the quantities that are modelled as numbers.
NaN == 1000

\* x < y and x <= y of Go.
Below(x, y) == x # NaN /\ y # NaN /\ x < y

AtMost(x, y) == x # NaN /\ y # NaN /\ x <= y

=============================================================================
